---- MODULE Spec2Model ----
(***************************************************************************)
(* Model of alteryx_mcp.py: the workflow document (an XML element tree),   *)
(* the node locators, the mutators and the workflow builder.               *)
(*                                                                         *)
(* The workflow file is modelled by its markup: a sequence of tokens       *)
(* (start tag, empty-element tag, character data, end tag) as              *)
(* ElementTree.write emits them.  Indentation white space, which xml_indent*)
(* puts only into elements that have children and which no operation of    *)
(* the module reads, is left out.  Strings are TLA+ strings; Len, SubSeq   *)
(* and \o work on them character by character.                             *)
(***************************************************************************)
EXTENDS Integers, Sequences, FiniteSets, TLC

(***************************************************************************)
(* Python values                                                           *)
(***************************************************************************)

\* Python's None where a str is expected (Element.text, Element.get).
None == "<None>"

\* str(x) of an int
Str(n) == ToString(n)

\* f"{x}" of a value that is a str or None
Fmt(s) == IF s = None THEN "None" ELSE s

\* x or "" for a value that is a str or None
OrEmpty(s) == IF s = None THEN "" ELSE s

Min(S) == CHOOSE x \in S : \A y \in S : x <= y

\* Python evaluates an expression before it uses the result: Op applied to
\* the value of e
Eager(e, Op(_)) == CHOOSE r \in {Op(x) : x \in {e}} : TRUE

\* s.endswith(suffix)
EndsWith(s, suffix) ==
    /\ Len(suffix) <= Len(s)
    /\ SubSeq(s, Len(s) - Len(suffix) + 1, Len(s)) = suffix

\* sub in s
Contains(s, sub) ==
    \E i \in 1..(Len(s) - Len(sub) + 1) : SubSeq(s, i, i + Len(sub) - 1) = sub

\* s.split(".")[-1]
LastSegment(s) ==
    LET dots == {i \in 1..Len(s) : SubSeq(s, i, i) = "."}
    IN  IF dots = {} THEN s
        ELSE SubSeq(s, (CHOOSE i \in dots : \A j \in dots : j <= i) + 1, Len(s))

UpperChars == "ABCDEFGHIJKLMNOPQRSTUVWXYZ"
LowerChars == "abcdefghijklmnopqrstuvwxyz"

LowerChar(c) ==
    LET hit == {i \in 1..26 : SubSeq(UpperChars, i, i) = c}
    IN  IF hit = {} THEN c ELSE SubSeq(LowerChars, Min(hit), Min(hit))

RECURSIVE Lower(_)
\* s.lower()
Lower(s) ==
    IF Len(s) = 0 THEN ""
    ELSE LowerChar(SubSeq(s, 1, 1)) \o Lower(SubSeq(s, 2, Len(s)))

\* s.strip() for the white space the model uses (blanks)
RECURSIVE Strip(_)
Strip(s) ==
    IF Len(s) = 0 THEN s
    ELSE IF SubSeq(s, 1, 1) = " " THEN Strip(SubSeq(s, 2, Len(s)))
    ELSE IF SubSeq(s, Len(s), Len(s)) = " " THEN Strip(SubSeq(s, 1, Len(s) - 1))
    ELSE s

(***************************************************************************)
(* xml.etree.ElementTree elements                                          *)
(***************************************************************************)

NoAttrib == [k \in {} |-> ""]

\* ET.Element / ET.SubElement: tag, attribute mapping, text, child elements
Elem(tag, attrib, text, kids) ==
    [tag |-> tag, attrib |-> attrib, text |-> text, kids |-> kids]

\* a leaf <tag>text</tag>
Leaf(tag, text) == Elem(tag, NoAttrib, text, <<>>)

\* elem.get(key) and elem.get(key, default)
GetOr(e, key, default) ==
    IF key \in DOMAIN e.attrib THEN e.attrib[key] ELSE default

Get(e, key) == GetOr(e, key, None)

\* elem.set(key, value)
SetAttr(e, key, value) ==
    [e EXCEPT !.attrib =
        [k \in (DOMAIN e.attrib) \cup {key} |->
            IF k = key THEN value ELSE e.attrib[k]]]

\* bool(elem): an Element is true iff it has child elements
Truthy(e) == Len(e.kids) > 0

\* A position inside a tree: the child indices from the context element
\* down.  NoPath stands for the None that find returns.
NoPath == <<0>>

RECURSIVE At(_, _)
At(e, p) == IF p = <<>> THEN e ELSE At(e.kids[Head(p)], Tail(p))

RECURSIVE SetText(_, _, _)
\* elem.text = value at position p
SetText(e, p, value) ==
    IF p = <<>> THEN [e EXCEPT !.text = value]
    ELSE [e EXCEPT !.kids[Head(p)] = SetText(e.kids[Head(p)], Tail(p), value)]

RECURSIVE SubElement(_, _, _)
\* ET.SubElement(parent, ...): append x as the last child of the element at p
SubElement(e, p, x) ==
    IF p = <<>> THEN [e EXCEPT !.kids = Append(@, x)]
    ELSE [e EXCEPT !.kids[Head(p)] = SubElement(e.kids[Head(p)], Tail(p), x)]

\* position of the child SubElement has just appended under p
LastKid(e, p) == p \o <<Len(At(e, p).kids)>>

RECURSIVE FindFrom(_, _, _)
\* elem.find("a/b/c"): first match, in document order, of the path of child
\* tags; children of e from index i on
FindFrom(e, tags, i) ==
    IF i > Len(e.kids) THEN NoPath
    ELSE LET k == e.kids[i]
             sub == IF k.tag # Head(tags) THEN NoPath
                    ELSE IF Len(tags) = 1 THEN <<>>
                    ELSE FindFrom(k, Tail(tags), 1)
         IN  IF sub # NoPath THEN <<i>> \o sub
             ELSE FindFrom(e, tags, i + 1)

Find(e, tags) == FindFrom(e, tags, 1)

\* elem.findall(tag): the indices of the children with this tag, in order
RECURSIVE FindAllFrom(_, _, _)
FindAllFrom(e, tag, i) ==
    IF i > Len(e.kids) THEN <<>>
    ELSE (IF e.kids[i].tag = tag THEN <<i>> ELSE <<>>)
         \o FindAllFrom(e, tag, i + 1)

FindAll(e, tag) == FindAllFrom(e, tag, 1)

\* elem.findtext(path, default)
FindText(e, tags, default) ==
    LET p == Find(e, tags)
    IN  IF p = NoPath THEN default ELSE OrEmpty(At(e, p).text)

RECURSIVE IterFrom(_, _)
\* the positions of all descendants of e (e itself excluded) in document
\* order; children of e from index i on
IterFrom(e, i) ==
    IF i > Len(e.kids) THEN <<>>
    ELSE LET below == IterFrom(e.kids[i], 1)
         IN  <<<<i>>>> \o [j \in 1..Len(below) |-> <<i>> \o below[j]]
             \o IterFrom(e, i + 1)

\* elem.iter(): e itself, then its descendants
Iter(e) == <<<<>>>> \o IterFrom(e, 1)

\* elem.iter(tag): the elements with that tag among them
IterTag(e, tag) == SelectSeq(Iter(e), LAMBDA p : At(e, p).tag = tag)

\* elem.find(".//tag/rest..."): the descendants of e with the first tag, in
\* document order, then the path of child tags below each; first match
FindDesc(e, tags) ==
    LET all == IterFrom(e, 1)
        hit(j) == IF At(e, all[j]).tag # Head(tags) THEN NoPath
                  ELSE IF Len(tags) = 1 THEN <<>>
                  ELSE Find(At(e, all[j]), Tail(tags))
        S == {j \in 1..Len(all) : hit(j) # NoPath}
    IN  IF S = {} THEN NoPath ELSE all[Min(S)] \o hit(Min(S))

(***************************************************************************)
(* The file: ElementTree.write and ET.parse / ET.fromstring                *)
(***************************************************************************)

Tok(kind, tag, attrib, s) == [k |-> kind, tag |-> tag, attrib |-> attrib, s |-> s]

RECURSIVE Serialize(_)
RECURSIVE SerializeKids(_, _)
\* ElementTree.write: an element without text and children is written as an
\* empty-element tag (short_empty_elements)
Serialize(e) ==
    IF e.kids = <<>> /\ e.text \in {None, ""}
    THEN <<Tok("empty", e.tag, e.attrib, "")>>
    ELSE <<Tok("open", e.tag, e.attrib, "")>>
         \o (IF e.text \in {None, ""} THEN <<>> ELSE <<Tok("text", "", NoAttrib, e.text)>>)
         \o SerializeKids(e, 1)
         \o <<Tok("close", e.tag, NoAttrib, "")>>

SerializeKids(e, i) ==
    IF i > Len(e.kids) THEN <<>>
    ELSE Serialize(e.kids[i]) \o SerializeKids(e, i + 1)

ParseFail == [ok |-> FALSE, elem |-> Leaf("", None), next |-> 0]

RECURSIVE ParseElem(_, _)
RECURSIVE ParseKids(_, _, _)
\* the element that starts at token i, and the index after it
ParseElem(toks, i) ==
    IF i > Len(toks) THEN ParseFail
    ELSE IF toks[i].k = "empty"
    THEN [ok |-> TRUE, elem |-> Elem(toks[i].tag, toks[i].attrib, None, <<>>),
          next |-> i + 1]
    ELSE IF toks[i].k = "open"
    THEN LET hasText == i + 1 <= Len(toks) /\ toks[i + 1].k = "text"
             text == IF hasText THEN toks[i + 1].s ELSE None
             start == IF hasText THEN i + 2 ELSE i + 1
         IN  ParseKids(toks, start, Elem(toks[i].tag, toks[i].attrib, text, <<>>))
    ELSE ParseFail

\* the children of the open element e from token i up to its end tag
ParseKids(toks, i, e) ==
    IF i > Len(toks) THEN ParseFail
    ELSE IF toks[i].k = "close"
    THEN IF toks[i].tag = e.tag
         THEN [ok |-> TRUE, elem |-> e, next |-> i + 1]
         ELSE ParseFail
    ELSE LET r == ParseElem(toks, i)
         IN  IF r.ok THEN ParseKids(toks, r.next, [e EXCEPT !.kids = Append(@, r.elem)])
             ELSE ParseFail

\* ET.fromstring: one element and nothing after it, or a ParseError
FromString(toks) ==
    LET r == ParseElem(toks, 1)
    IN  IF r.ok /\ r.next = Len(toks) + 1 THEN r ELSE ParseFail

\* ET.parse(path).getroot() of a well-formed file
ParseFile(toks) == FromString(toks).elem

\* _write_tree(tree, path): the new content of the file
_write_tree(root) == Serialize(root)

(***************************************************************************)
(* _find_node_by_id                                                        *)
(***************************************************************************)

RECURSIVE _search(_, _)
RECURSIVE _searchIn(_, _, _, _, _)
\* a search that does not look inside a node that is not the match
_search_top_level(elem, tool_id) ==
    IF elem.tag = "Node"
    THEN (IF Get(elem, "ToolID") = Str(tool_id) THEN <<>> ELSE NoPath)
    ELSE _searchIn(elem, tool_id, [i \in 1..Len(elem.kids) |-> i], 1, <<>>)

\* _find_node_by_id._search: the position, relative to elem, of the node
\* found, or NoPath
_search(elem, tool_id) ==
    IF elem.tag = "Node" /\ Get(elem, "ToolID") = Str(tool_id) THEN <<>>
    ELSE LET cn == Find(elem, <<"ChildNodes">>)
             inChildNodes ==
                 IF cn = NoPath THEN NoPath
                 ELSE _searchIn(At(elem, cn), tool_id, FindAll(At(elem, cn), "Node"), 1, cn)
         IN  IF inChildNodes # NoPath THEN inChildNodes
             ELSE _searchIn(elem, tool_id, [i \in 1..Len(elem.kids) |-> i], 1, <<>>)

\* the loops of _search: the children of parent listed in idxs, from the
\* j-th on; prefix is the position of parent
_searchIn(parent, tool_id, idxs, j, prefix) ==
    IF j > Len(idxs) THEN NoPath
    ELSE LET r == _search(parent.kids[idxs[j]], tool_id)
         IN  IF r # NoPath THEN prefix \o <<idxs[j]>> \o r
             ELSE _searchIn(parent, tool_id, idxs, j + 1, prefix)

_find_node_by_id(root, tool_id) == _search(root, tool_id)

(***************************************************************************)
(* Plugin table                                                            *)
(***************************************************************************)

PluginShortNames ==
    {"AlteryxSelect", "DbFileInput", "DbFileOutput", "Filter", "Join", "Sort",
     "Formula", "TextBox", "Browse", "ToolContainer", "Union", "Summarize",
     "Sample", "Unique", "RecordID", "MultiRowFormula", "TextInput",
     "DateTimeInput"}

PLUGIN_PATTERNS ==
    [n \in PluginShortNames |->
        CASE n \in {"TextBox", "ToolContainer"} -> "AlteryxGuiToolkit." \o n \o "." \o n
          [] n = "Browse" -> "AlteryxBasePluginsGui.BrowseV2.BrowseV2"
          [] OTHER -> "AlteryxBasePluginsGui." \o n \o "." \o n]

\* PLUGIN_PATTERNS.get(plugin_type, plugin_type)
PluginFull(plugin_type) ==
    IF plugin_type \in DOMAIN PLUGIN_PATTERNS THEN PLUGIN_PATTERNS[plugin_type]
    ELSE plugin_type

(***************************************************************************)
(* Mutators.  Each operator is one call: it parses the file, edits the     *)
(* tree in memory and yields the content of the file after the call, the   *)
(* returned string, and whether _write_tree was reached.                   *)
(***************************************************************************)

Ret(file, result) == [file |-> file, result |-> result, wrote |-> FALSE]

Written(root, result) == [file |-> _write_tree(root), result |-> result, wrote |-> TRUE]

\* "if not target_node": the node was not found, or it has no child element
NotTarget(root, t) == t = NoPath \/ ~Truthy(At(root, t))

update_select_tool(file, tool_id, dry_run) ==
    LET root == ParseFile(file)
        t == _find_node_by_id(root, tool_id)
    IN  IF NotTarget(root, t) THEN Ret(file, "Tool ID " \o Str(tool_id) \o " not found")
        ELSE IF dry_run
        THEN Ret(file, "Dry run - would update select tool " \o Str(tool_id))
        ELSE Written(root, "Updated select tool " \o Str(tool_id))

\* ET.SubElement(parent, ...) for the element at st.at of the tree st.root:
\* the tree with the new child, and the position of that child
Create(st, x) ==
    [root |-> SubElement(st.root, st.at, x),
     at |-> st.at \o <<Len(At(st.root, st.at).kids) + 1>>]

\* "x = parent.find(tag); if x is None: x = ET.SubElement(parent, tag)"
FindOrCreate(st, tag, x) ==
    LET found == Find(At(st.root, st.at), <<tag>>)
    IN  IF found # NoPath THEN [root |-> st.root, at |-> st.at \o found]
        ELSE Create(st, x)

\* lines 363-372 of update_annotation: the tree with the annotation leaf of
\* the node at t in place, and the position of that leaf
EnsureAnnotation(root, t) ==
    LET found == Find(At(root, t), <<"Properties", "Annotation", "DefaultAnnotationText">>)
        props == FindOrCreate([root |-> root, at |-> t], "Properties",
                              Elem("Properties", NoAttrib, None, <<>>))
        annot == FindOrCreate(props, "Annotation",
                              Elem("Annotation", [k \in {"DisplayMode"} |-> "0"], None, <<>>))
    IN  IF found # NoPath THEN [root |-> root, at |-> t \o found]
        ELSE Create(annot, Leaf("DefaultAnnotationText", None))

\* lines 374-381 of update_annotation: e is the tree and the annotation leaf
SetAnnotation(file, e, tool_id, new_annotation, dry_run) ==
    IF dry_run
    THEN Ret(file, "Dry run - would change annotation from '"
                   \o OrEmpty(At(e.root, e.at).text) \o "' to '" \o new_annotation \o "'")
    ELSE Written(SetText(e.root, e.at, new_annotation),
                 "Updated annotation for tool " \o Str(tool_id))

update_annotation(file, tool_id, new_annotation, dry_run) ==
    LET root == ParseFile(file)
        t == _find_node_by_id(root, tool_id)
    IN  IF NotTarget(root, t) THEN Ret(file, "Tool ID " \o Str(tool_id) \o " not found")
        ELSE SetAnnotation(file, EnsureAnnotation(root, t), tool_id, new_annotation, dry_run)

\* lines 399-414 of update_sql_query: the tree with the Query leaf of the
\* node at t in place and the position of that leaf, or the error text
EnsureQuery(root, t, tool_id) ==
    LET node == At(root, t)
        q0 == Find(node, <<"Properties", "Configuration", "FormatSpecificOptions", "Query">>)
        config == Find(node, <<"Properties", "Configuration">>)
        fso == Find(At(node, config), <<"FormatSpecificOptions">>)
    IN  IF q0 # NoPath THEN [error |-> "", root |-> root, at |-> t \o q0]
        ELSE IF config = NoPath
        THEN [error |-> "Tool ID " \o Str(tool_id) \o " has no Configuration",
              root |-> root, at |-> NoPath]
        ELSE IF fso = NoPath
        THEN [error |-> "Could not find FormatSpecificOptions in tool " \o Str(tool_id),
              root |-> root, at |-> NoPath]
        ELSE [error |-> "",
              root |-> SubElement(root, t \o config \o fso, Leaf("Query", None)),
              at |-> t \o config \o fso \o <<Len(At(node, config \o fso).kids) + 1>>]

\* lines 416-423 of update_sql_query: e is the result of EnsureQuery
SetQuery(file, e, tool_id, new_query, dry_run) ==
    IF e.error # "" THEN Ret(file, e.error)
    ELSE IF dry_run THEN Ret(file, "Dry run - would update SQL query in tool " \o Str(tool_id))
    ELSE Written(SetText(e.root, e.at, new_query),
                 "Updated SQL query for tool " \o Str(tool_id))

\* an update that creates the missing format-options anchor, persists it,
\* and still answers with the error
update_sql_query_creating_anchor(file, tool_id, new_query, remove_comments, dry_run) ==
    LET root == ParseFile(file)
        t == _find_node_by_id(root, tool_id)
        config == Find(At(root, t), <<"Properties", "Configuration">>)
    IN  IF NotTarget(root, t) THEN Ret(file, "Tool ID " \o Str(tool_id) \o " not found")
        ELSE IF /\ ~dry_run /\ config # NoPath
                /\ Find(At(root, t \o config), <<"FormatSpecificOptions">>) = NoPath
        THEN Written(SubElement(root, t \o config, Leaf("FormatSpecificOptions", None)),
                     "Could not find FormatSpecificOptions in tool " \o Str(tool_id))
        ELSE SetQuery(file, EnsureQuery(root, t, tool_id), tool_id, new_query, dry_run)

update_sql_query(file, tool_id, new_query, remove_comments, dry_run) ==
    LET root == ParseFile(file)
        t == _find_node_by_id(root, tool_id)
    IN  IF NotTarget(root, t) THEN Ret(file, "Tool ID " \o Str(tool_id) \o " not found")
        ELSE SetQuery(file, EnsureQuery(root, t, tool_id), tool_id, new_query, dry_run)

\* The connection lookup shared by update_connection_id and
\* batch_update_connections: ".//FormatSpecificOptions/Connection", then
\* ".//Configuration/Connection", both searched among all descendants of the
\* node; position relative to the node
FindConnection(node) ==
    LET a == FindDesc(node, <<"FormatSpecificOptions", "Connection">>)
    IN  IF a # NoPath THEN a ELSE FindDesc(node, <<"Configuration", "Connection">>)

\* the Connection element the two operations create
NewConnection == Elem("Connection", [k \in {"DcmType"} |-> "ConnectionId"], None, <<>>)

\* a variant that creates a connection element without looking for one
EnsureConnectionAlwaysNew(root, t) ==
    LET node == At(root, t)
        config == Find(node, <<"Properties", "Configuration">>)
    IN  IF config = NoPath THEN [ok |-> FALSE, root |-> root, at |-> NoPath]
        ELSE [ok |-> TRUE,
              root |-> SubElement(root, t \o config, NewConnection),
              at |-> t \o config \o <<Len(At(node, config).kids) + 1>>]

\* lines 440-452 and 517-529: the tree with the connection element of the
\* node at t in place and the position of that element; not ok when the
\* node has neither a connection element nor a configuration
EnsureConnection(root, t) ==
    LET node == At(root, t)
        c0 == FindConnection(node)
        config == Find(node, <<"Properties", "Configuration">>)
    IN  IF c0 # NoPath THEN [ok |-> TRUE, root |-> root, at |-> t \o c0]
        ELSE IF config = NoPath THEN [ok |-> FALSE, root |-> root, at |-> NoPath]
        ELSE [ok |-> TRUE,
              root |-> SubElement(root, t \o config, NewConnection),
              at |-> t \o config \o <<Len(At(node, config).kids) + 1>>]

\* lines 448-461 of update_connection_id: e is the result of EnsureConnection
SetConnection(file, e, tool_id, new_connection_id, dry_run) ==
    IF ~e.ok THEN Ret(file, "No Configuration element found in tool " \o Str(tool_id))
    ELSE IF dry_run
    THEN Ret(file, "Dry run - would change connection from '"
                   \o OrEmpty(At(e.root, e.at).text) \o "' to '" \o new_connection_id \o "'")
    ELSE Written(SetText(e.root, e.at, new_connection_id),
                 "Updated connection ID for tool " \o Str(tool_id))

update_connection_id(file, tool_id, new_connection_id, dry_run) ==
    LET root == ParseFile(file)
        t == _find_node_by_id(root, tool_id)
    IN  IF NotTarget(root, t) THEN Ret(file, "Tool ID " \o Str(tool_id) \o " not found")
        ELSE SetConnection(file, EnsureConnection(root, t), tool_id, new_connection_id,
                           dry_run)

(***************************************************************************)
(* Reports                                                                 *)
(***************************************************************************)

RECURSIVE Join(_, _)
\* sep.join(parts)
Join(parts, sep) ==
    IF parts = <<>> THEN ""
    ELSE IF Len(parts) = 1 THEN parts[1]
    ELSE parts[1] \o sep \o Join(Tail(parts), sep)

\* f"Tool ID {tool_id}: '{old}' -> '{new}'"
ChangeLine(tool_id, old, new) ==
    "Tool ID " \o tool_id \o ": '" \o Fmt(old) \o "' -> '" \o Fmt(new) \o "'"

\* lines 535-549 and 928-940: the heading of the changes, the change lines,
\* the heading of the errors, the error lines
ResultParts(changes, errors, dry_run) ==
    (IF changes # <<>>
     THEN <<(IF dry_run THEN "[DRY RUN] Would update " ELSE "Updated ")
            \o Str(Len(changes)) \o " tools:">> \o changes
     ELSE <<>>)
    \o (IF errors # <<>>
        THEN <<"\nErrors (" \o Str(Len(errors)) \o "):">> \o errors
        ELSE <<>>)

(***************************************************************************)
(* batch_update_connections                                                *)
(***************************************************************************)

\* An Optional[int] argument is a sequence: <<>> for None, <<n>> for n.
NoInt == <<>>

\* lines 535-549 and 928-945: write when there are changes and the call is
\* no preview, and return the report; l is the state the loop ended in
BatchReport(file, l, dry_run, nothing) ==
    LET result == IF l.changes = <<>> /\ l.errors = <<>> THEN nothing
                  ELSE Join(ResultParts(l.changes, l.errors, dry_run), "\n")
    IN  IF l.changes # <<>> /\ ~dry_run THEN Written(l.root, result)
        ELSE Ret(file, result)

\* the state a batch loop starts in
LoopStart(root) == [root |-> root, changes |-> <<>>, errors |-> <<>>]

\* lines 518-533: e is the result of EnsureConnection for the target
ConnEdit(st, tool_id, e, connection_id) ==
    IF ~e.ok
    THEN [st EXCEPT !.errors = Append(@, "Tool ID " \o Str(tool_id)
                                         \o " has no Configuration element")]
    ELSE [root |-> SetText(e.root, e.at, connection_id),
          changes |-> Append(st.changes,
                             ChangeLine(Str(tool_id), At(e.root, e.at).text, connection_id)),
          errors |-> st.errors]

\* lines 510-531: one pass of the loop, for the target tool_id
ConnTarget(st, tool_id, connection_id) ==
    LET t == _find_node_by_id(st.root, tool_id)
    IN  IF t = NoPath
        THEN [st EXCEPT !.errors = Append(@, "Tool ID " \o Str(tool_id) \o " not found")]
        ELSE ConnEdit(st, tool_id, EnsureConnection(st.root, t), connection_id)

RECURSIVE ConnLoop(_, _, _, _)
\* the loop of lines 510-531 from the i-th target on, in the state st
ConnLoop(st, tool_ids, i, connection_id) ==
    IF i > Len(tool_ids) THEN st
    ELSE Eager(ConnTarget(st, tool_ids[i], connection_id),
               LAMBDA s : ConnLoop(s, tool_ids, i + 1, connection_id))

\* lines 487-502: the connection id to use; "missing" when the source node
\* is not found
ResolveConnection(root, source_connection_id, source_tool_id) ==
    IF source_connection_id = None /\ source_tool_id # NoInt
    THEN LET s == _find_node_by_id(root, source_tool_id[1])
         IN  IF s = NoPath THEN [missing |-> TRUE, id |-> None]
             ELSE LET c == FindConnection(At(root, s))
                  IN  [missing |-> FALSE,
                       id |-> IF c = NoPath THEN None ELSE At(root, s \o c).text]
    ELSE [missing |-> FALSE, id |-> source_connection_id]

\* a batch update that persists its changes in preview mode too
batch_update_connections_persisting(file, tool_ids, source_connection_id, source_tool_id, dry_run) ==
    LET root == ParseFile(file)
        res == ResolveConnection(root, source_connection_id, source_tool_id)
    IN  IF res.missing
        THEN Ret(file, "Source Tool ID " \o Str(source_tool_id[1]) \o " not found")
        ELSE IF res.id = None
        THEN Ret(file, "No connection ID provided and no source tool ID found")
        ELSE BatchReport(file, ConnLoop(LoopStart(root), tool_ids, 1, res.id), FALSE, "")

batch_update_connections(file, tool_ids, source_connection_id, source_tool_id, dry_run) ==
    LET root == ParseFile(file)
        res == ResolveConnection(root, source_connection_id, source_tool_id)
    IN  IF res.missing
        THEN Ret(file, "Source Tool ID " \o Str(source_tool_id[1]) \o " not found")
        ELSE IF res.id = None
        THEN Ret(file, "No connection ID provided and no source tool ID found")
        ELSE BatchReport(file, ConnLoop(LoopStart(root), tool_ids, 1, res.id), dry_run, "")

(***************************************************************************)
(* Row limits                                                              *)
(***************************************************************************)

\* a limit update that takes the value 0 for a parameter not supplied
SetLimitIfNonZero(st, config, tag, param, label, arrow) ==
    IF param = NoInt \/ param = <<0>> THEN st
    ELSE LET l0 == Find(At(st.root, config), <<tag>>)
             r1 == IF l0 = NoPath THEN SubElement(st.root, config, Leaf(tag, None))
                   ELSE st.root
             l == IF l0 = NoPath THEN LastKid(r1, config) ELSE config \o l0
         IN  [root |-> SetText(r1, l, Str(param[1])),
              changes |-> Append(st.changes,
                             label \o Fmt(At(r1, l).text) \o arrow \o Str(param[1]))]

\* lines 804-810 (and their copies for Last and N): when the parameter was
\* supplied, create or update the leaf under the configuration at config and
\* add the change text
SetLimit(st, config, tag, param, label, arrow) ==
    IF param = NoInt THEN st
    ELSE LET l0 == Find(At(st.root, config), <<tag>>)
             r1 == IF l0 = NoPath THEN SubElement(st.root, config, Leaf(tag, None))
                   ELSE st.root
             l == IF l0 = NoPath THEN LastKid(r1, config) ELSE config \o l0
             old_val == At(r1, l).text
         IN  [root |-> SetText(r1, l, Str(param[1])),
              changes |-> Append(st.changes,
                             label \o Fmt(old_val) \o arrow \o Str(param[1]))]

\* lines 803-828 and 897-922: the three parameters in turn, for the
\* configuration at config
SetLimits(st, config, first_n, last_n, sample_n, labels, arrow) ==
    Eager(SetLimit(st, config, "First", first_n, labels[1], arrow), LAMBDA s1 :
    Eager(SetLimit(s1, config, "Last", last_n, labels[2], arrow), LAMBDA s2 :
    SetLimit(s2, config, "N", sample_n, labels[3], arrow)))

\* lines 797-828 and 891-922: the edit of the node at t; config is the
\* position of its configuration; not ok when it has none
LimitsOf(root, t, config, first_n, last_n, sample_n, labels, arrow) ==
    IF config = NoPath THEN [ok |-> FALSE, root |-> root, changes |-> <<>>]
    ELSE LET s == SetLimits([root |-> root, changes |-> <<>>], t \o config,
                            first_n, last_n, sample_n, labels, arrow)
         IN  [ok |-> TRUE, root |-> s.root, changes |-> s.changes]

\* lines 798-837 of update_row_limit: s is the result of LimitsOf
RowLimitReport(file, s, tool_id, dry_run) ==
    IF ~s.ok THEN Ret(file, "Tool ID " \o Str(tool_id) \o " has no Configuration element")
    ELSE IF s.changes = <<>> THEN Ret(file, "No row limit updates specified")
    ELSE IF dry_run
    THEN Ret(file, "[DRY RUN] Would update Tool ID " \o Str(tool_id)
                   \o ": " \o Join(s.changes, "; "))
    ELSE Written(s.root, "Updated Tool ID " \o Str(tool_id)
                         \o ": " \o Join(s.changes, "; "))

update_row_limit(file, tool_id, first_n, last_n, sample_n, dry_run) ==
    LET root == ParseFile(file)
        t == _find_node_by_id(root, tool_id)
    IN  IF t = NoPath THEN Ret(file, "Tool ID " \o Str(tool_id) \o " not found")
        ELSE RowLimitReport(file,
                 LimitsOf(root, t, Find(At(root, t), <<"Properties", "Configuration">>),
                          first_n, last_n, sample_n,
                          <<"First N: ", "Last N: ", "Sample N: ">>, " -> "),
                 tool_id, dry_run)

(***************************************************************************)
(* Mapping <-> sub-tree conversion                                         *)
(*                                                                         *)
(* A value of a mapping is tagged with its Python type.  The mapping that  *)
(* _elem_to_dict returns is a function from keys to values (Python         *)
(* compares dicts without regard to order); the mapping handed to          *)
(* _dict_to_elem is a sequence of <<key, value>> pairs with distinct keys, *)
(* in the order data.items() yields them.                                  *)
(***************************************************************************)

VStr(s) == [t |-> "str", v |-> s]
VInt(n) == [t |-> "int", v |-> n]
VDict(d) == [t |-> "dict", v |-> d]
VList(l) == [t |-> "list", v |-> l]

EmptyDict == [k \in {} |-> VStr("")]

\* result[key] = value
DictPut(d, key, value) ==
    [x \in (DOMAIN d) \cup {key} |-> IF x = key THEN value ELSE d[x]]

RECURSIVE AttribItems(_, _, _)
\* lines 643-644: one "@key" entry per attribute
AttribItems(attrib, keys, result) ==
    IF keys = {} THEN result
    ELSE LET key == CHOOSE x \in keys : TRUE
         IN  AttribItems(attrib, keys \ {key}, DictPut(result, "@" \o key, VStr(attrib[key])))

RECURSIVE _elem_to_dict(_)
RECURSIVE ElemKids(_, _, _)
_elem_to_dict(elem) ==
    LET r0 == IF elem.text # None /\ Strip(elem.text) # ""
              THEN DictPut(EmptyDict, "_text", VStr(Strip(elem.text)))
              ELSE EmptyDict
        r1 == AttribItems(elem.attrib, DOMAIN elem.attrib, r0)
    IN  ElemKids(elem, 1, r1)

\* the loop of lines 645-652 from the i-th child on
ElemKids(elem, i, result) ==
    IF i > Len(elem.kids) THEN result
    ELSE LET child == elem.kids[i]
             child_data == VDict(_elem_to_dict(child))
             r == IF child.tag \in DOMAIN result
                  THEN LET cur == IF result[child.tag].t # "list"
                                  THEN <<result[child.tag]>>
                                  ELSE result[child.tag].v
                       IN  DictPut(result, child.tag, VList(Append(cur, child_data)))
                  ELSE DictPut(result, child.tag, child_data)
         IN  ElemKids(elem, i + 1, r)

\* str(value) of a scalar
ScalarStr(value) == IF value.t = "int" THEN Str(value.v) ELSE value.v

RECURSIVE _dict_to_elem(_, _)
RECURSIVE DictItems(_, _, _)
RECURSIVE ListItems(_, _, _, _)
\* the parent element after _dict_to_elem(parent, data)
_dict_to_elem(parent, data) == DictItems(parent, data, 1)

\* the loop of lines 658-675 from the i-th item on
DictItems(parent, data, i) ==
    IF i > Len(data) THEN parent
    ELSE LET key == data[i][1]
             value == data[i][2]
             p == IF Len(key) >= 1 /\ SubSeq(key, 1, 1) = "@"
                  THEN SetAttr(parent, SubSeq(key, 2, Len(key)), ScalarStr(value))
                  ELSE IF key = "_text"
                  THEN [parent EXCEPT !.text = ScalarStr(value)]
                  ELSE IF value.t = "dict"
                  THEN [parent EXCEPT !.kids =
                           Append(@, _dict_to_elem(Elem(key, NoAttrib, None, <<>>), value.v))]
                  ELSE IF value.t = "list"
                  THEN ListItems(parent, key, value.v, 1)
                  ELSE [parent EXCEPT !.kids = Append(@, Leaf(key, ScalarStr(value)))]
         IN  DictItems(p, data, i + 1)

\* the loop of lines 667-672 from the j-th item on
ListItems(parent, key, items, j) ==
    IF j > Len(items) THEN parent
    ELSE LET item == items[j]
             child == IF item.t = "dict"
                      THEN _dict_to_elem(Elem(key, NoAttrib, None, <<>>), item.v)
                      ELSE Leaf(key, ScalarStr(item))
         IN  ListItems([parent EXCEPT !.kids = Append(@, child)], key, items, j + 1)

(***************************************************************************)
(* find_tools and find_tools_fast                                          *)
(***************************************************************************)

Digits == "0123456789"

DigitOf(c) == (CHOOSE i \in 1..10 : SubSeq(Digits, i, i) = c) - 1

RECURSIVE IntOf(_)
\* int(s) of a decimal numeral
IntOf(s) ==
    IF Len(s) = 1 THEN DigitOf(s)
    ELSE 10 * IntOf(SubSeq(s, 1, Len(s) - 1)) + DigitOf(SubSeq(s, Len(s), Len(s)))

Found(tools) == [raised |-> "", tools |-> tools, count |-> Len(tools)]

Raised(exception) == [raised |-> exception, tools |-> <<>>, count |-> 0]

RECURSIVE _search_node(_, _, _, _, _)
RECURSIVE SearchNodes(_, _, _, _, _, _, _)
\* find_tools._search_node: the results the call appends, in order
_search_node(node, container_path, tool_id, plugin_full, annotation_pattern) ==
    LET tid == Get(node, "ToolID")
    IN  IF tid = None \/ tid = "" THEN <<>>
        ELSE
        LET tid_int == IntOf(tid)
            g == Find(node, <<"GuiSettings">>)
            plugin_name == IF g = NoPath THEN "" ELSE GetOr(At(node, g), "Plugin", "")
            annotation == FindText(node, <<"Properties", "Annotation", "DefaultAnnotationText">>, "")
            matches ==
                /\ ~(tool_id # NoInt /\ tid_int # tool_id[1])
                /\ ~(plugin_full \notin {None, ""}
                     /\ ~EndsWith(plugin_name, LastSegment(plugin_full)))
                /\ ~(annotation_pattern \notin {None, ""}
                     /\ ~Contains(Lower(annotation), Lower(annotation_pattern)))
            c == Find(node, <<"Properties", "Configuration">>)
            mine == IF matches
                    THEN <<[tool_id |-> tid_int,
                            plugin |-> plugin_name,
                            annotation |-> annotation,
                            container_path |-> container_path,
                            configuration |-> IF c = NoPath THEN EmptyDict
                                              ELSE _elem_to_dict(At(node, c))]>>
                    ELSE <<>>
            caption == FindText(node, <<"Properties", "Configuration", "Caption">>,
                                "Container_" \o tid)
            cn == Find(node, <<"ChildNodes">>)
        IN  IF plugin_name # "" /\ Contains(plugin_name, "ToolContainer") /\ cn # NoPath
            THEN mine \o SearchNodes(At(node, cn), FindAll(At(node, cn), "Node"), 1,
                                     Append(container_path, caption),
                                     tool_id, plugin_full, annotation_pattern)
            ELSE mine

\* the loops of lines 312-313 and 317-318 from the j-th node on
SearchNodes(parent, idxs, j, container_path, tool_id, plugin_full, annotation_pattern) ==
    IF j > Len(idxs) THEN <<>>
    ELSE _search_node(parent.kids[idxs[j]], container_path, tool_id, plugin_full,
                      annotation_pattern)
         \o SearchNodes(parent, idxs, j + 1, container_path, tool_id, plugin_full,
                        annotation_pattern)

find_tools(file, tool_id, plugin_type, annotation_pattern) ==
    LET root == ParseFile(file)
        plugin_full == IF plugin_type \notin {None, ""} THEN PluginFull(plugin_type) ELSE None
        nodes_elem == Find(root, <<"Nodes">>)
    IN  IF nodes_elem = NoPath THEN Found(<<>>)
        ELSE Found(SearchNodes(At(root, nodes_elem), FindAll(At(root, nodes_elem), "Node"), 1,
                               <<>>, tool_id, plugin_full, annotation_pattern))

\* a start tag or empty-element tag that the text '<Node ToolID="{tool_id}"'
\* matches
IsNodeTag(tok, tool_id) ==
    /\ tok.k \in {"open", "empty"}
    /\ tok.tag = "Node"
    /\ "ToolID" \in DOMAIN tok.attrib
    /\ tok.attrib["ToolID"] = Str(tool_id)

\* re.search('<Node ToolID="{tool_id}".*?</Node>', content, re.DOTALL): the
\* matched part of the file, <<>> when there is no match
NodeMatch(file, tool_id) ==
    LET starts == {i \in 1..Len(file) : IsNodeTag(file[i], tool_id)}
        ends(i) == {j \in (i + 1)..Len(file) : file[j].k = "close" /\ file[j].tag = "Node"}
        ok == {i \in starts : ends(i) # {}}
    IN  IF ok = {} THEN <<>>
        ELSE SubSeq(file, Min(ok), Min(ends(Min(ok))))

find_tools_fast(file, tool_id, plugin_type, annotation_pattern) ==
    IF tool_id # NoInt /\ plugin_type = None /\ annotation_pattern = None
    THEN LET node_xml == NodeMatch(file, tool_id[1])
             parsed == FromString(node_xml)
             node == parsed.elem
             g == Find(node, <<"GuiSettings">>)
             c == Find(node, <<"Properties", "Configuration">>)
         IN  IF node_xml = <<>> THEN Found(<<>>)
             ELSE IF ~parsed.ok THEN Raised("ParseError")
             ELSE Found(<<[tool_id |-> tool_id[1],
                           plugin |-> IF g = NoPath THEN "" ELSE Get(At(node, g), "Plugin"),
                           annotation |-> FindText(node, <<"Properties", "Annotation",
                                                           "DefaultAnnotationText">>, ""),
                           container_path |-> <<>>,
                           configuration |-> IF c = NoPath THEN EmptyDict
                                             ELSE _elem_to_dict(At(node, c))]>>)
    ELSE find_tools(file, tool_id, plugin_type, annotation_pattern)

(***************************************************************************)
(* batch_update_row_limits                                                 *)
(***************************************************************************)

\* lines 891-925: s is the result of LimitsOf for the target
LimitEdit(st, tool_id, s) ==
    IF ~s.ok
    THEN [st EXCEPT !.errors = Append(@, "Tool ID " \o Str(tool_id) \o " has no Configuration")]
    ELSE [root |-> s.root,
          changes |-> IF s.changes # <<>>
                      THEN Append(st.changes, "Tool " \o Str(tool_id) \o ": "
                                              \o Join(s.changes, ", "))
                      ELSE st.changes,
          errors |-> st.errors]

\* lines 885-925: one pass of the loop, for the target tool_id
LimitTarget(st, tool_id, first_n, last_n, sample_n) ==
    LET t == _find_node_by_id(st.root, tool_id)
    IN  IF t = NoPath
        THEN [st EXCEPT !.errors = Append(@, "Tool ID " \o Str(tool_id) \o " not found")]
        ELSE LimitEdit(st, tool_id,
                       LimitsOf(st.root, t,
                                Find(At(st.root, t), <<"Properties", "Configuration">>),
                                first_n, last_n, sample_n,
                                <<"First: ", "Last: ", "Sample: ">>, "->"))

RECURSIVE LimitLoop(_, _, _, _, _, _)
\* the loop of lines 885-925 from the i-th target on, in the state st
LimitLoop(st, ids, i, first_n, last_n, sample_n) ==
    IF i > Len(ids) THEN st
    ELSE Eager(LimitTarget(st, ids[i], first_n, last_n, sample_n),
               LAMBDA s : LimitLoop(s, ids, i + 1, first_n, last_n, sample_n))

\* lines 869-876: the targets of the call
TargetToolIds(file, tool_ids, plugin_type) ==
    IF tool_ids # <<>> THEN tool_ids
    ELSE LET found == find_tools(file, NoInt, plugin_type, None).tools
         IN  [j \in 1..Len(found) |-> found[j].tool_id]

\* lines 878-945: the call once its targets are known
UpdateTargets(file, target_tool_ids, first_n, last_n, sample_n, dry_run) ==
    IF target_tool_ids = <<>> THEN Ret(file, "No tools found to update")
    ELSE BatchReport(file,
                     LimitLoop(LoopStart(ParseFile(file)), target_tool_ids, 1,
                               first_n, last_n, sample_n),
                     dry_run, "No updates made")

\* tool_ids is a sequence; None and the empty list take the same branches
batch_update_row_limits(file, tool_ids, plugin_type, first_n, last_n, sample_n, dry_run) ==
    IF tool_ids = <<>> /\ plugin_type \in {None, ""}
    THEN Ret(file, "Must specify either tool_ids or plugin_type")
    ELSE UpdateTargets(file, TargetToolIds(file, tool_ids, plugin_type),
                       first_n, last_n, sample_n, dry_run)

(***************************************************************************)
(* rewrite_connections                                                     *)
(***************************************************************************)

RECURSIVE Replace(_, _, _)
\* s.replace(old, new) for a non-empty old
Replace(s, old, new) ==
    IF Len(s) < Len(old) THEN s
    ELSE IF SubSeq(s, 1, Len(old)) = old
    THEN new \o Replace(SubSeq(s, Len(old) + 1, Len(s)), old, new)
    ELSE SubSeq(s, 1, 1) \o Replace(SubSeq(s, 2, Len(s)), old, new)

\* new_info.get(key, "")
InfoGet(new_info, key) == IF key \in DOMAIN new_info THEN new_info[key] ELSE ""

\* lines 242-248: the label rename inside the annotation below properties
Relabel(root, properties, new_info) ==
    LET a == FindDesc(At(root, properties), <<"DefaultAnnotationText">>)
        text == At(root, properties \o a).text
        old_label == InfoGet(new_info, "old_label")
    IN  IF /\ "new_label" \in DOMAIN new_info
           /\ a # NoPath
           /\ text \notin {None, ""}
           /\ old_label # ""
           /\ Contains(text, old_label)
        THEN SetText(root, properties \o a, Replace(text, old_label, new_info["new_label"]))
        ELSE root

\* lines 234-248: the connection element at c holds a key of the mapping;
\* p is the position of the node and properties that of its Properties
RewriteLeaf(st, p, properties, c, new_info) ==
    [root |-> Relabel(SetText(st.root, c, new_info["new_id"]), properties, new_info),
     changes |-> Append(st.changes,
                        ChangeLine(Fmt(Get(At(st.root, p), "ToolID")),
                                   At(st.root, c).text, new_info["new_id"]))]

\* lines 233-235: c is the position of the connection element of the node at p
RewriteAt(st, p, properties, c, connections_map) ==
    IF At(st.root, c).text \notin DOMAIN connections_map THEN st
    ELSE RewriteLeaf(st, p, properties, c, connections_map[At(st.root, c).text])

\* lines 220-248: one pass of the loop, for the element at p
RewriteNode(st, p, connections_map) ==
    LET node == At(st.root, p)
        properties == Find(node, <<"Properties">>)
        config_elem == IF properties = NoPath THEN NoPath
                       ELSE Find(At(node, properties), <<"Configuration">>)
        connection_elem == IF config_elem = NoPath THEN NoPath
                           ELSE Find(At(node, properties \o config_elem), <<"Connection">>)
    IN  IF connection_elem = NoPath THEN st
        ELSE RewriteAt(st, p, p \o properties,
                       p \o properties \o config_elem \o connection_elem, connections_map)

RECURSIVE RewriteLoop(_, _, _, _)
\* the loop of lines 220-248 over all, the positions root.iter("Node")
\* yields, from the i-th on, in the state st
RewriteLoop(st, all, i, connections_map) ==
    IF i > Len(all) THEN st
    ELSE Eager(RewriteNode(st, all[i], connections_map),
               LAMBDA s : RewriteLoop(s, all, i + 1, connections_map))

\* lines 217-248: the loop over the parsed tree
RewriteAll(root, connections_map) ==
    RewriteLoop([root |-> root, changes |-> <<>>], IterTag(root, "Node"), 1, connections_map)

\* lines 250-257: l is the state the loop ended in
RewriteReport(file, l, dry_run) ==
    IF l.changes = <<>> THEN Ret(file, "No connections were updated")
    ELSE IF dry_run
    THEN Ret(file, "[DRY RUN] Would make " \o Str(Len(l.changes)) \o " changes:\n"
                   \o Join(l.changes, "\n"))
    ELSE Written(l.root, "Updated " \o Str(Len(l.changes)) \o " connections:\n"
                         \o Join(l.changes, "\n"))

\* config: whether the config file exists, and the "connections" mapping
\* of its JSON content (empty when the key is absent)
rewrite_connections(file, config, dry_run) ==
    IF ~config.exists THEN Ret(file, "Config file not found: config.json")
    ELSE IF DOMAIN config.connections = {}
    THEN Ret(file, "No connections mapping found in config")
    ELSE RewriteReport(file,
                       Eager(ParseFile(file), LAMBDA root : RewriteAll(root, config.connections)),
                       dry_run)

(***************************************************************************)
(* create_workflow                                                         *)
(*                                                                         *)
(* A tool descriptor and an edge descriptor are functions from the keys    *)
(* they carry to values; the configuration and the metadata are sequences  *)
(* of <<key, value>> pairs.                                                *)
(***************************************************************************)

\* cfg.get(key, default)
CfgGet(cfg, key, default) == IF key \in DOMAIN cfg THEN cfg[key] ELSE default

\* Path(output_path).stem
OutputStem == "workflow"

\* an id assignment that counts the descriptors from 0
ToolIdFromZero(tool_cfg, idx) == CfgGet(tool_cfg, "tool_id", idx - 1)

\* line 575: tool_cfg.get("tool_id", idx), idx counting the descriptors from 1
ToolId(tool_cfg, idx) == CfgGet(tool_cfg, "tool_id", idx)

\* lines 574-606: the Node element of the idx-th descriptor
ToolNode(tool_cfg, idx) ==
    LET tool_id == ToolId(tool_cfg, idx)
        plugin_type == CfgGet(tool_cfg, "plugin", "AlteryxSelect")
        plugin_full == PluginFull(plugin_type)
        pos == CfgGet(tool_cfg, "position", [k \in {"x", "y"} |-> IF k = "x" THEN 100 * idx ELSE 100])
        position == Elem("Position",
                         [k \in {"x", "y"} |->
                             IF k = "x" THEN Str(CfgGet(pos, "x", 100 * idx))
                             ELSE Str(CfgGet(pos, "y", 100))],
                         None, <<>>)
        gui == Elem("GuiSettings", [k \in {"Plugin"} |-> plugin_full], None, <<position>>)
        config == _dict_to_elem(Elem("Configuration", NoAttrib, None, <<>>),
                                CfgGet(tool_cfg, "configuration", <<>>))
        annotation == Elem("Annotation", [k \in {"DisplayMode"} |-> "0"], None,
                           <<Leaf("Name", ""),
                             Leaf("DefaultAnnotationText", CfgGet(tool_cfg, "annotation", "")),
                             Elem("Left", [k \in {"value"} |-> "False"], None, <<>>)>>)
        props == Elem("Properties", NoAttrib, None, <<config, annotation>>)
    IN  Elem("Node", [k \in {"ToolID"} |-> Str(tool_id)], None, <<gui, props>>)

\* lines 610-619: the Connection element of one edge descriptor
EdgeElem(conn) ==
    Elem("Connection", NoAttrib, None,
         <<Elem("Origin",
                [k \in {"ToolID", "Connection"} |->
                    IF k = "ToolID" THEN Str(conn["origin"])
                    ELSE CfgGet(conn, "origin_connection", "Output")],
                None, <<>>),
           Elem("Destination",
                [k \in {"ToolID", "Connection"} |->
                    IF k = "ToolID" THEN Str(conn["destination"])
                    ELSE CfgGet(conn, "destination_connection", "Input")],
                None, <<>>)>>)

\* lines 624-630: the caller's metadata, then the defaults it did not give
MetaItems(metadata) ==
    LET keys == {metadata[i][1] : i \in 1..Len(metadata)}
    IN  metadata
        \o (IF "Name" \in keys THEN <<>> ELSE <<<<"Name", OutputStem>>>>)
        \o (IF "Description" \in keys THEN <<>>
            ELSE <<<<"Description", "Auto-generated workflow">>>>)

\* the tree create_workflow builds
BuildDocument(tools_config, connections, metadata) ==
    LET nodes == Elem("Nodes", NoAttrib, None,
                      [idx \in 1..Len(tools_config) |-> ToolNode(tools_config[idx], idx)])
        conns_elem == Elem("Connections", NoAttrib, None,
                           [i \in 1..Len(connections) |-> EdgeElem(connections[i])])
        meta == MetaItems(metadata)
        meta_info == Elem("MetaInfo", NoAttrib, None,
                          [i \in 1..Len(meta) |-> Leaf(meta[i][1], meta[i][2])])
        props_elem == Elem("Properties", NoAttrib, None, <<meta_info>>)
    IN  Elem("AlteryxDocument",
             [k \in {"yxmdVer", "RunE2"} |-> IF k = "yxmdVer" THEN "2024.1" ELSE "T"],
             None,
             <<nodes>> \o (IF connections # <<>> THEN <<conns_elem>> ELSE <<>>)
             \o <<props_elem>>)

create_workflow(tools_config, connections, metadata) ==
    Written(BuildDocument(tools_config, connections, metadata),
            "Created workflow at workflow.yxmd with " \o Str(Len(tools_config)) \o " tool(s)")

(***************************************************************************)
(* summarize_workflow                                                      *)
(***************************************************************************)

\* lines 107-108: the Plugin attribute of the node's GuiSettings, "" without
PluginStr(node) ==
    LET g == Find(node, <<"GuiSettings">>)
    IN  IF g = NoPath THEN "" ELSE GetOr(At(node, g), "Plugin", "")

\* lines 106 and 158-162: the positions _process_node is called for when it
\* is called for the node at p, in the order of the calls; children(i) are
\* the Node children of its ChildNodes from the i-th on
RECURSIVE Processed(_, _)
Processed(root, p) ==
    LET node == At(root, p)
        child_nodes == Find(node, <<"ChildNodes">>)
        nodes == IF child_nodes = NoPath THEN <<>>
                 ELSE FindAll(At(node, child_nodes), "Node")
        below(i) == Processed(root, p \o child_nodes \o <<nodes[i]>>)
    IN  IF Contains(PluginStr(node), "ToolContainer") /\ Len(nodes) >= 1
        THEN <<p>> \o below(1) \o (IF Len(nodes) >= 2 THEN below(2) ELSE <<>>)
        ELSE <<p>>

\* lines 164-167: the calls of _process_node for the whole document; nodes
\* is root.find("Nodes") and "if nodes" asks for a child element
ProcessedAll(root) ==
    LET nodes == Find(root, <<"Nodes">>)
        top == IF nodes = NoPath THEN <<>> ELSE FindAll(At(root, nodes), "Node")
        under(i) == Processed(root, nodes \o <<top[i]>>)
    IN  IF nodes = NoPath \/ ~Truthy(At(root, nodes)) THEN <<>>
        ELSE under(1) \o (IF Len(top) >= 2 THEN under(2) ELSE <<>>)

\* "a or b" of two find results below e: a, unless a is None or an element
\* without child elements
OrFind(e, a, b) == IF a # NoPath /\ Truthy(At(e, a)) THEN a ELSE b

\* lines 126-128 and 147-149: the connection text the summary takes from a
\* configuration
SummaryConnection(config) ==
    LET conn_elem == OrFind(config,
                            Find(config, <<"FormatSpecificOptions", "Connection">>),
                            Find(config, <<"Connection">>))
    IN  IF conn_elem = NoPath THEN "" ELSE OrEmpty(At(config, conn_elem).text)

\* lines 115-136: the entry of a database input
DbInput(node) ==
    LET config == Find(node, <<"Properties", "Configuration">>)
    IN  [id |-> Get(node, "ToolID"),
         connection |-> IF config = NoPath THEN "" ELSE SummaryConnection(At(node, config)),
         query |-> IF config = NoPath THEN ""
                   ELSE Strip(FindText(At(node, config),
                                       <<"FormatSpecificOptions", "Query">>, "")),
         annotation |-> Strip(FindText(node,
                                       <<"Properties", "Annotation", "DefaultAnnotationText">>,
                                       ""))]

\* lines 138-155: the entry of a database output
DbOutput(node) ==
    LET config == Find(node, <<"Properties", "Configuration">>)
    IN  [id |-> Get(node, "ToolID"),
         file |-> IF config = NoPath THEN "" ELSE FindText(At(node, config), <<"File">>, ""),
         connection |-> IF config = NoPath THEN "" ELSE SummaryConnection(At(node, config))]

\* line 112: the simplified plugin name
SimplePlugin(node) ==
    IF PluginStr(node) = "" THEN "Unknown" ELSE LastSegment(PluginStr(node))

RECURSIVE MostCommon(_, _)
\* tool_counts.most_common() for the names counted in this order: the
\* distinct names by falling count, names of equal count in the order they
\* were first counted; done holds the names already listed
MostCommon(names, done) ==
    LET rest == SelectSeq(names, LAMBDA n : n \notin done)
        count(n) == Len(SelectSeq(names, LAMBDA m : m = n))
        best == {i \in 1..Len(rest) : \A j \in 1..Len(rest) : count(rest[j]) <= count(rest[i])}
    IN  IF rest = <<>> THEN <<>>
        ELSE <<"- **" \o rest[Min(best)] \o "**: " \o Str(count(rest[Min(best)]))>>
             \o MostCommon(names, done \cup {rest[Min(best)]})

\* the backquote of Markdown; a string of this notation cannot hold the
\* character, an apostrophe stands for it
Tick == "'"

\* lines 181-190: the lines of one database input
InputLines(item) ==
    <<"### Tool " \o Fmt(item.id)>>
    \o (IF item.annotation # "" THEN <<"**Annotation**: " \o item.annotation>> ELSE <<>>)
    \o (IF item.connection # "" THEN <<"**Connection**: " \o Tick \o item.connection \o Tick>>
        ELSE <<>>)
    \o (IF item.query # "" THEN <<Tick \o Tick \o Tick \o "sql", item.query, Tick \o Tick \o Tick>> ELSE <<>>)
    \o <<"">>

\* line 195: the line of one database output
OutputLine(item) ==
    "- **Tool " \o Fmt(item.id) \o "**: "
    \o (IF item.file # "" THEN item.file ELSE item.connection)

RECURSIVE Flatten(_)
Flatten(lists) == IF lists = <<>> THEN <<>> ELSE Head(lists) \o Flatten(Tail(lists))

\* lines 170-197: the Markdown text; seen are the nodes _process_node was
\* called for
SummaryText(seen) ==
    LET db_inputs == SelectSeq(seen, LAMBDA n : Contains(PluginStr(n), "DbFileInput"))
        db_outputs == SelectSeq(seen, LAMBDA n : /\ ~Contains(PluginStr(n), "DbFileInput")
                                                 /\ Contains(PluginStr(n), "DbFileOutput"))
    IN  Join(<<"# Workflow Summary: workflow.yxmd", "", "## Tool Statistics">>
             \o MostCommon([i \in 1..Len(seen) |-> SimplePlugin(seen[i])], {})
             \o <<"">>
             \o (IF db_inputs = <<>> THEN <<>>
                 ELSE <<"## Database Inputs">>
                      \o Flatten([i \in 1..Len(db_inputs) |-> InputLines(DbInput(db_inputs[i]))]))
             \o (IF db_outputs = <<>> THEN <<>>
                 ELSE <<"## Outputs">>
                      \o [i \in 1..Len(db_outputs) |-> OutputLine(DbOutput(db_outputs[i]))]),
             "\n")

\* the mapping argument is not used
summarize_workflow(file) ==
    Eager(ParseFile(file), LAMBDA root :
        Eager(ProcessedAll(root), LAMBDA at :
            SummaryText([i \in 1..Len(at) |-> At(root, at[i])])))

(***************************************************************************)
(* Workflow documents the model starts from                                *)
(***************************************************************************)

Attr1(key, value) == [k \in {key} |-> value]

NodeE(id, kids) == Elem("Node", Attr1("ToolID", Str(id)), None, kids)
Gui(short) == Elem("GuiSettings", Attr1("Plugin", PLUGIN_PATTERNS[short]), None, <<>>)
Props(kids) == Elem("Properties", NoAttrib, None, kids)
Config(kids) == Elem("Configuration", NoAttrib, None, kids)
Fso(kids) == Elem("FormatSpecificOptions", NoAttrib, None, kids)
Annot(text) ==
    Elem("Annotation", Attr1("DisplayMode", "0"), None,
         <<Leaf("Name", None), Leaf("DefaultAnnotationText", text)>>)
Conn(text) == Elem("Connection", Attr1("DcmType", "ConnectionId"), text, <<>>)
ChildNodes(nodes) == Elem("ChildNodes", NoAttrib, None, nodes)

\* The shapes a tool node takes.
Kinds ==
    {"Bare", "GuiOnly", "NoConfig", "EmptyConfig", "DbDirect", "DbFso",
     "DbFsoOnly", "DbBoth", "Sample", "MultiRow"}

ToolOf(kind, id) ==
    CASE kind = "Bare" -> NodeE(id, <<>>)
      [] kind = "GuiOnly" -> NodeE(id, <<Gui("Filter")>>)
      [] kind = "NoConfig" -> NodeE(id, <<Gui("Filter"), Props(<<>>)>>)
      [] kind = "EmptyConfig" ->
            NodeE(id, <<Gui("Formula"), Props(<<Config(<<>>), Annot(None)>>)>>)
      [] kind = "DbDirect" ->
            NodeE(id, <<Gui("DbFileInput"),
                        Props(<<Config(<<Conn("CONN_A")>>), Annot("Load Sales")>>)>>)
      [] kind = "DbFso" ->
            NodeE(id, <<Gui("DbFileInput"),
                        Props(<<Config(<<Fso(<<Conn("CONN_B"), Leaf("Query", "select 1")>>)>>)>>)>>)
      [] kind = "DbFsoOnly" ->
            NodeE(id, <<Gui("DbFileOutput"), Props(<<Config(<<Fso(<<>>)>>)>>)>>)
      [] kind = "DbBoth" ->
            NodeE(id, <<Gui("DbFileInput"),
                        Props(<<Config(<<Fso(<<Conn("CONN_B")>>), Conn("CONN_A")>>),
                                Annot("old CONN_A feed")>>)>>)
      [] kind = "Sample" ->
            NodeE(id, <<Gui("Sample"),
                        Props(<<Config(<<Leaf("First", "10"), Leaf("GroupByField", None)>>)>>)>>)
      [] kind = "MultiRow" ->
            NodeE(id, <<Gui("MultiRowFormula"), Props(<<Config(<<>>), Annot("Calc")>>)>>)

\* a container node: caption (None for no Caption element) and child nodes
Container(id, caption, nodes) ==
    NodeE(id, <<Gui("ToolContainer"),
                Props(<<Config(IF caption = None THEN <<>> ELSE <<Leaf("Caption", caption)>>)>>),
                ChildNodes(nodes)>>)

Document(nodes) ==
    Elem("AlteryxDocument", Attr1("yxmdVer", "2024.1"), None,
         <<Elem("Nodes", NoAttrib, None, nodes)>>)

\* The shapes of the node nested in container 2.
InnerKinds == {"Bare", "EmptyConfig", "DbFso"}

\* node 1 at the top level, node 3 inside container 2, node 5 inside
\* container 4 inside container 2
NestedDoc(x, y) ==
    Document(<<ToolOf(x, 1),
               Container(2, "Box", <<ToolOf(y, 3),
                                     Container(4, None, <<ToolOf("DbDirect", 5)>>)>>)>>)

\* two nodes carry id 2: the first, in document order, inside container 1
DuplicateDoc ==
    Document(<<Container(1, "Box", <<ToolOf("EmptyConfig", 2)>>), ToolOf("DbDirect", 2)>>)

\* no tool at all
EmptyDoc == Document(<<>>)

Documents ==
    {NestedDoc(x, y) : x \in Kinds, y \in InnerKinds} \cup {DuplicateDoc, EmptyDoc}

(***************************************************************************)
(* State                                                                   *)
(***************************************************************************)

VARIABLES
    disk,     \* the content of the workflow file
    before,   \* its content when the last call started
    call,     \* the last call: operation and arguments
    ret,      \* what the last call returned
    wrote,    \* whether the last call reached _write_tree
    running   \* the calls in progress of callers that work at the same time

vars == <<disk, before, call, ret, wrote, running>>

Init ==
    /\ disk \in {Serialize(d) : d \in Documents}
    /\ before = disk
    /\ call = [op |-> "none"]
    /\ ret = ""
    /\ wrote = FALSE
    /\ running = <<>>

\* no call has been made yet
NoCall == call.op = "none"

\* a call of a mutator with outcome r
Mutate(c, r) ==
    /\ before' = disk
    /\ call' = c
    /\ disk' = r.file
    /\ ret' = r.result
    /\ wrote' = r.wrote
    /\ UNCHANGED running

\* a call of a locator, which leaves the file alone
Locate(c, r) ==
    /\ before' = disk
    /\ call' = c
    /\ ret' = r
    /\ UNCHANGED <<disk, wrote, running>>

\* the ids calls name: the ids of the documents and one no node carries
ToolIds == {1, 2, 3, 4, 5, 9}

\* Optional[int] arguments over a set of ints
Opt(S) == {NoInt} \cup {<<n>> : n \in S}

\* the longest list of target ids a batch call is given
MaxTargets == 2

\* the ids batch calls name: node 1, container 2, and 9 that no node carries
TargetIds == {1, 2, 9}

\* the source ids batch_update_connections is given
SourceIds == {1, 5, 9}

Lists(S, n) == UNION {[1..k -> S] : k \in 0..n}

UpdateSelectTool ==
    /\ NoCall
    /\ \E tool_id \in ToolIds, dry_run \in BOOLEAN :
        Mutate([op |-> "update_select_tool", tool_id |-> tool_id, dry_run |-> dry_run],
               update_select_tool(disk, tool_id, dry_run))

UpdateAnnotation ==
    /\ NoCall
    /\ \E tool_id \in ToolIds, new_annotation \in {"Checked", ""}, dry_run \in BOOLEAN :
        Mutate([op |-> "update_annotation", tool_id |-> tool_id,
                new_annotation |-> new_annotation, dry_run |-> dry_run],
               update_annotation(disk, tool_id, new_annotation, dry_run))

UpdateSqlQuery ==
    /\ NoCall
    /\ \E tool_id \in ToolIds, new_query \in {"select 2 -- all"},
       remove_comments \in BOOLEAN, dry_run \in BOOLEAN :
        Mutate([op |-> "update_sql_query", tool_id |-> tool_id, new_query |-> new_query,
                remove_comments |-> remove_comments, dry_run |-> dry_run],
               update_sql_query(disk, tool_id, new_query, remove_comments, dry_run))

UpdateConnectionId ==
    /\ NoCall
    /\ \E tool_id \in ToolIds, new_connection_id \in {"CONN_X", "CONN_A"}, dry_run \in BOOLEAN :
        Mutate([op |-> "update_connection_id", tool_id |-> tool_id,
                new_connection_id |-> new_connection_id, dry_run |-> dry_run],
               update_connection_id(disk, tool_id, new_connection_id, dry_run))

UpdateRowLimit ==
    /\ NoCall
    /\ \E tool_id \in ToolIds, first_n \in Opt({0, 5}), last_n \in Opt({7}),
       sample_n \in Opt({3}), dry_run \in BOOLEAN :
        Mutate([op |-> "update_row_limit", tool_id |-> tool_id, first_n |-> first_n,
                last_n |-> last_n, sample_n |-> sample_n, dry_run |-> dry_run],
               update_row_limit(disk, tool_id, first_n, last_n, sample_n, dry_run))

BatchUpdateConnections ==
    /\ NoCall
    /\ \E tool_ids \in Lists(TargetIds, MaxTargets),
       source_connection_id \in {None, "CONN_X"},
       source_tool_id \in Opt(SourceIds),
       dry_run \in BOOLEAN :
        /\ source_connection_id # None => source_tool_id = NoInt
        /\ Mutate([op |-> "batch_update_connections", tool_ids |-> tool_ids,
                   source_connection_id |-> source_connection_id,
                   source_tool_id |-> source_tool_id, dry_run |-> dry_run],
                  batch_update_connections(disk, tool_ids, source_connection_id,
                                           source_tool_id, dry_run))

BatchUpdateRowLimits ==
    /\ NoCall
    /\ \E tool_ids \in Lists(TargetIds, MaxTargets),
       plugin_type \in {None, "Sample", "Formula", "Join"},
       first_n \in Opt({0}), sample_n \in Opt({3}), dry_run \in BOOLEAN :
        /\ tool_ids # <<>> => plugin_type = None
        /\ Mutate([op |-> "batch_update_row_limits", tool_ids |-> tool_ids,
                   plugin_type |-> plugin_type, first_n |-> first_n, last_n |-> NoInt,
                   sample_n |-> sample_n, dry_run |-> dry_run],
                  batch_update_row_limits(disk, tool_ids, plugin_type, first_n, NoInt,
                                          sample_n, dry_run))

\* one entry of the "connections" mapping of a config file
Info(new_id) == [k \in {"new_id"} |-> new_id]

InfoLabels(new_id, old_label, new_label) ==
    [k \in {"new_id", "old_label", "new_label"} |->
        CASE k = "new_id" -> new_id [] k = "old_label" -> old_label [] OTHER -> new_label]

\* the config files rewrite_connections is given
ConfigFiles ==
    {[exists |-> FALSE, connections |-> [k \in {} |-> Info("")]],
     [exists |-> TRUE, connections |-> [k \in {} |-> Info("")]],
     [exists |-> TRUE, connections |-> [k \in {"CONN_Z"} |-> Info("CONN_X")]],
     [exists |-> TRUE, connections |-> [k \in {"CONN_A"} |-> Info("CONN_X")]],
     [exists |-> TRUE, connections |-> [k \in {"CONN_B"} |-> Info("CONN_X")]],
     [exists |-> TRUE,
      connections |-> [k \in {"CONN_A", "CONN_B"} |->
                          IF k = "CONN_A" THEN Info("CONN_B") ELSE Info("CONN_C")]],
     [exists |-> TRUE,
      connections |-> [k \in {"CONN_A"} |-> InfoLabels("CONN_X", "CONN_A", "CONN_A v2")]],
     [exists |-> TRUE,
      connections |-> [k \in {"CONN_A"} |-> InfoLabels("CONN_X", "Sales", "Orders")]],
     [exists |-> TRUE,
      connections |-> [k \in {"CONN_A"} |-> InfoLabels("CONN_A", "CONN_A", "CONN_A v2")]]}

RewriteConnections ==
    /\ NoCall
    /\ \E config \in ConfigFiles, dry_run \in BOOLEAN :
        Mutate([op |-> "rewrite_connections", config |-> config, dry_run |-> dry_run],
               rewrite_connections(disk, config, dry_run))

\* the mutators of the module
Next ==
    \/ UpdateSelectTool
    \/ UpdateAnnotation
    \/ UpdateSqlQuery
    \/ UpdateConnectionId
    \/ UpdateRowLimit
    \/ BatchUpdateConnections
    \/ BatchUpdateRowLimits
    \/ RewriteConnections

Spec == Init /\ [][Next]_vars

(***************************************************************************)
(* Locating nodes                                                          *)
(***************************************************************************)

FindNodeById ==
    /\ NoCall
    /\ \E tool_id \in ToolIds :
        Locate([op |-> "_find_node_by_id", tool_id |-> tool_id],
               _find_node_by_id(ParseFile(disk), tool_id))

\* the plugin types and annotation patterns locate calls name
PluginTypes ==
    {None, "Formula", "MultiRowFormula", "DbFileInput", "ToolContainer", "Browse",
     "AlteryxBasePluginsGui.Filter.Filter"}

AnnotationPatterns == {None, "load", "CALC"}

FindTools ==
    /\ NoCall
    /\ \E tool_id \in Opt(ToolIds), plugin_type \in PluginTypes,
       annotation_pattern \in AnnotationPatterns :
        Locate([op |-> "find_tools", tool_id |-> tool_id, plugin_type |-> plugin_type,
                annotation_pattern |-> annotation_pattern],
               find_tools(disk, tool_id, plugin_type, annotation_pattern))

FindToolsFast ==
    /\ NoCall
    /\ \E tool_id \in Opt(ToolIds), plugin_type \in PluginTypes,
       annotation_pattern \in AnnotationPatterns :
        Locate([op |-> "find_tools_fast", tool_id |-> tool_id, plugin_type |-> plugin_type,
                annotation_pattern |-> annotation_pattern],
               find_tools_fast(disk, tool_id, plugin_type, annotation_pattern))

NextLocate ==
    \/ FindNodeById
    \/ FindTools
    \/ FindToolsFast

SpecLocate == Init /\ [][NextLocate]_vars

\* batch_update_connections alone
NextBatch == BatchUpdateConnections

SpecBatch == Init /\ [][NextBatch]_vars

\* update_annotation alone
NextAnnotation == UpdateAnnotation

SpecAnnotation == Init /\ [][NextAnnotation]_vars

(***************************************************************************)
(* Retrying a call                                                         *)
(***************************************************************************)

\* the mutator call c run on the file
Run(c, file) ==
    CASE c.op = "update_select_tool" -> update_select_tool(file, c.tool_id, c.dry_run)
      [] c.op = "update_annotation" ->
            update_annotation(file, c.tool_id, c.new_annotation, c.dry_run)
      [] c.op = "update_sql_query" ->
            update_sql_query(file, c.tool_id, c.new_query, c.remove_comments, c.dry_run)
      [] c.op = "update_connection_id" ->
            update_connection_id(file, c.tool_id, c.new_connection_id, c.dry_run)
      [] c.op = "update_row_limit" ->
            update_row_limit(file, c.tool_id, c.first_n, c.last_n, c.sample_n, c.dry_run)
      [] c.op = "batch_update_connections" ->
            batch_update_connections(file, c.tool_ids, c.source_connection_id,
                                     c.source_tool_id, c.dry_run)
      [] c.op = "batch_update_row_limits" ->
            batch_update_row_limits(file, c.tool_ids, c.plugin_type, c.first_n, c.last_n,
                                    c.sample_n, c.dry_run)
      [] c.op = "rewrite_connections" -> rewrite_connections(file, c.config, c.dry_run)

\* the caller repeats the non-preview call it has just made, with the same
\* arguments, on the file that call left
Retry ==
    /\ call.op # "none"
    /\ call.op # "retry"
    /\ ~call.dry_run
    /\ \E r \in {Run(call, disk)} : Mutate([op |-> "retry", of |-> call], r)

NextRetry ==
    \/ UpdateSelectTool
    \/ UpdateAnnotation
    \/ UpdateSqlQuery
    \/ UpdateConnectionId
    \/ UpdateRowLimit
    \/ BatchUpdateConnections
    \/ BatchUpdateRowLimits
    \/ RewriteConnections
    \/ Retry

SpecRetry == Init /\ [][NextRetry]_vars

(***************************************************************************)
(* Two callers at the same time                                            *)
(*                                                                         *)
(* Every operation is one parse -> locate -> mutate -> write cycle with no *)
(* lock and no state shared between calls.  ET.parse reads the file in one *)
(* step; the edit happens on the caller's own tree; _write_tree replaces   *)
(* the file in one step.                                                   *)
(***************************************************************************)

Callers == {1, 2}

\* the calls the two callers make
ConcurrentCalls ==
    {[op |-> "update_connection_id", tool_id |-> i, new_connection_id |-> "CONN_X",
      dry_run |-> FALSE] : i \in {1, 5}}
    \cup {[op |-> "update_annotation", tool_id |-> i, new_annotation |-> "Checked",
           dry_run |-> FALSE] : i \in {5, 9}}
    \cup {[op |-> "update_row_limit", tool_id |-> 1, first_n |-> <<5>>, last_n |-> NoInt,
           sample_n |-> NoInt, dry_run |-> FALSE]}

Idle == [pc |-> "idle", c |-> [op |-> "none"], parsed |-> <<>>, parsed_at |-> 0, wrote_at |-> 0]

InitConcurrent ==
    /\ disk \in {Serialize(d) : d \in Documents}
    /\ before = disk
    /\ call = [op |-> "none"]
    /\ ret = ""
    /\ wrote = FALSE
    /\ running = [i \in Callers |-> Idle]

\* the steps taken so far
Ticks ==
    LET StepsOf(i) == CASE running[i].pc = "idle" -> 0
                        [] running[i].pc = "parsed" -> 1
                        [] running[i].pc = "done" -> 2
    IN  StepsOf(1) + StepsOf(2)

\* a write that is refused when the file is no longer what the caller parsed
OverwriteIfUnchanged(current, parsed, r) ==
    IF r.wrote /\ current = parsed THEN r.file ELSE current

\* tree.write(path) of the outcome r of a call: the file is replaced
\* whatever it holds by now; the content the caller parsed plays no part
Overwrite(current, parsed, r) == IF r.wrote THEN r.file ELSE current

\* ET.parse(workflow_path) of a call of caller i
ParseStep(i) ==
    /\ running[i].pc = "idle"
    /\ \E c \in ConcurrentCalls :
          running' = [running EXCEPT ![i] = [pc |-> "parsed", c |-> c, parsed |-> disk,
                                            parsed_at |-> Ticks + 1, wrote_at |-> 0]]
    /\ UNCHANGED <<disk, before, call, ret, wrote>>

\* the rest of the call of caller i: the edit of the tree it parsed, and
\* _write_tree when the call gets that far
WriteStep(i) ==
    /\ running[i].pc = "parsed"
    /\ LET r == Run(running[i].c, running[i].parsed)
       IN  /\ disk' = Overwrite(disk, running[i].parsed, r)
           /\ ret' = r.result
           /\ wrote' = r.wrote
           /\ running' = [running EXCEPT ![i].pc = "done",
                                         ![i].wrote_at = IF r.wrote THEN Ticks + 1 ELSE 0]
    /\ UNCHANGED <<before, call>>

NextConcurrent ==
    \/ \E i \in Callers : ParseStep(i)
    \/ \E i \in Callers : WriteStep(i)

SpecConcurrent == InitConcurrent /\ [][NextConcurrent]_vars

(***************************************************************************)
(* Summarizing a workflow, as it is or after a connection update           *)
(***************************************************************************)

SummarizeWorkflow ==
    /\ call.op \in {"none", "update_connection_id"}
    /\ Locate([op |-> "summarize_workflow", after |-> call], summarize_workflow(disk))

NextSummarize ==
    \/ UpdateConnectionId
    \/ SummarizeWorkflow

SpecSummarize == Init /\ [][NextSummarize]_vars

(***************************************************************************)
(* Building a workflow                                                     *)
(***************************************************************************)

\* the output path names no file yet
InitCreate ==
    /\ disk = <<>>
    /\ before = disk
    /\ call = [op |-> "none"]
    /\ ret = ""
    /\ wrote = FALSE
    /\ running = <<>>

\* the most tool descriptors and edge descriptors a call is given
MaxTools == 2
MaxEdges == 2

NoKeys == [k \in {} |-> 0]

ToolCfgs ==
    {NoKeys,
     [plugin |-> "Filter"],
     [tool_id |-> 2, plugin |-> "Union"],
     [tool_id |-> 5, plugin |-> "Browse", annotation |-> "Look"],
     [tool_id |-> 2, plugin |-> "DbFileInput",
      configuration |-> <<<<"Connection", VStr("CONN_A")>>>>,
      position |-> [x |-> 40]],
     [plugin |-> "Vendor.Custom.Tool"]}

EdgeCfgs ==
    {[origin |-> 1, destination |-> 2],
     [origin |-> 1, destination |-> 2, origin_connection |-> "True"],
     [origin |-> 2, destination |-> 9, destination_connection |-> "Left"]}

Metadatas == {<<>>, <<<<"Description", "Demo">>, <<"Author", "me">>>>}

CreateWorkflow ==
    /\ NoCall
    /\ \E tools_config \in Lists(ToolCfgs, MaxTools), connections \in Lists(EdgeCfgs, MaxEdges),
       metadata \in Metadatas :
        Mutate([op |-> "create_workflow", tools_config |-> tools_config,
                connections |-> connections, metadata |-> metadata],
               create_workflow(tools_config, connections, metadata))

NextCreate == CreateWorkflow

SpecCreate == InitCreate /\ [][NextCreate]_vars

(***************************************************************************)
(* Converting a mapping to a sub-tree and back                             *)
(***************************************************************************)

\* the longest sequence under one key
MaxItems == 2

Scalars == {VStr("a.csv"), VInt(10)}

InnerDicts ==
    {<<>>,
     <<<<"_text", VStr("id")>>>>,
     <<<<"@mode", VStr("fast")>>>>,
     <<<<"@mode", VStr("fast")>>, <<"_text", VStr("id")>>>>,
     <<<<"Field", VDict(<<<<"@name", VStr("id")>>>>)>>, <<"@mode", VStr("fast")>>>>}

Items == {VStr("a.csv")} \cup {VDict(d) : d \in InnerDicts \ {<<>>}}

Values ==
    Scalars \cup {VDict(d) : d \in InnerDicts}
    \cup {VList(l) : l \in Lists(Items, MaxItems) \ {<<>>}}

\* the configuration mappings given to _dict_to_elem
Mappings ==
    {<<>>, <<<<"_text", VStr("note")>>>>}
    \cup {<<<<"File", v>>>> : v \in Values}
    \cup {<<<<"@version", VStr("1")>>, <<"Fields", v>>, <<"Mode", VDict(<<>>)>>>> : v \in Values}

InitConvert ==
    /\ disk = <<>>
    /\ before = disk
    /\ call \in {[op |-> "mapping", data |-> m] : m \in Mappings}
    /\ ret = ""
    /\ wrote = FALSE
    /\ running = <<>>

\* _dict_to_elem(config, data) on a fresh Configuration element
DictToElem ==
    /\ call.op = "mapping"
    /\ call' = [op |-> "_dict_to_elem", data |-> call.data]
    /\ ret' = _dict_to_elem(Elem("Configuration", NoAttrib, None, <<>>), call.data)
    /\ UNCHANGED <<disk, before, wrote, running>>

\* _elem_to_dict of the element just built
ElemToDict ==
    /\ call.op = "_dict_to_elem"
    /\ call' = [op |-> "_elem_to_dict", data |-> call.data]
    /\ ret' = _elem_to_dict(ret)
    /\ UNCHANGED <<disk, before, wrote, running>>

NextConvert ==
    \/ DictToElem
    \/ ElemToDict

SpecConvert == InitConvert /\ [][NextConvert]_vars

(***************************************************************************)
(* Vocabulary of the properties                                            *)
(***************************************************************************)

StartsWith(s, prefix) == Len(prefix) <= Len(s) /\ SubSeq(s, 1, Len(prefix)) = prefix

RECURSIVE Lines(_)
\* the lines of a report
Lines(s) ==
    LET nl == {i \in 1..Len(s) : SubSeq(s, i, i) = "\n"}
    IN  IF nl = {} THEN <<s>>
        ELSE <<SubSeq(s, 1, Min(nl) - 1)>> \o Lines(SubSeq(s, Min(nl) + 1, Len(s)))

\* how many lines of a report satisfy Test
CountLines(s, Test(_)) == Len(SelectSeq(Lines(s), Test))

\* how many entries of a list satisfy Test
Count(list, Test(_)) == Len(SelectSeq(list, Test))

\* the positions of the nodes of a document in depth-first pre-order: a
\* node, then its children, then its next sibling
NodePositions(root) == IterTag(root, "Node")

\* the positions, in that order, of the nodes that carry an id
NodesWithId(root, id) ==
    SelectSeq(NodePositions(root), LAMBDA p : Get(At(root, p), "ToolID") = Str(id))

HasNode(root, id) == NodesWithId(root, id) # <<>>

\* the node that carries an id
NodeOf(root, id) == At(root, NodesWithId(root, id)[1])

\* no two nodes of the document carry the same id
UniqueIds(root) ==
    \A i, j \in 1..Len(NodePositions(root)) :
        i # j => Get(At(root, NodePositions(root)[i]), "ToolID")
                 # Get(At(root, NodePositions(root)[j]), "ToolID")

\* the plugin of a node
PluginOf(node) ==
    LET g == Find(node, <<"GuiSettings">>)
    IN  IF g = NoPath THEN "" ELSE GetOr(At(node, g), "Plugin", "")

\* the connection leaf of a node, in either legal location: under the
\* format-options sub-section of the node's configuration, or directly under
\* the node's configuration
ConnectionLeaf(node) ==
    LET a == Find(node, <<"Properties", "Configuration", "FormatSpecificOptions", "Connection">>)
    IN  IF a # NoPath THEN a ELSE Find(node, <<"Properties", "Configuration", "Connection">>)

\* the text of that leaf, None when the node has no connection leaf
ConnectionText(node) ==
    IF ConnectionLeaf(node) = NoPath THEN None ELSE At(node, ConnectionLeaf(node)).text

\* the annotation leaf of a node
AnnotationLeaf(node) == Find(node, <<"Properties", "Annotation", "DefaultAnnotationText">>)

MutatorOps ==
    {"update_annotation", "update_sql_query", "update_connection_id",
     "batch_update_connections", "update_row_limit", "batch_update_row_limits",
     "rewrite_connections", "update_select_tool"}

(***************************************************************************)
(* Properties                                                              *)
(***************************************************************************)

\* C1: a call of any mutator with dry_run=True never reaches the write step:
\* the content of the workflow file after the call is its content before.
C1_PreviewNeverWrites ==
    (call.op \in MutatorOps /\ call.dry_run) => (disk = before /\ ~wrote)

\* a preview of a batch that would have changed two nodes
C1_Witness ==
    /\ call.op = "batch_update_connections"
    /\ call.dry_run
    /\ StartsWith(ret, "[DRY RUN] Would update 2 tools:")
    /\ disk = before

\* the value a batch_update_connections call resolved, None when it did not
BatchValue ==
    LET res == ResolveConnection(ParseFile(before), call.source_connection_id,
                                 call.source_tool_id)
    IN  IF res.missing THEN None ELSE res.id

IsChangeLine(line) == StartsWith(line, "Tool ID ") /\ Contains(line, "' -> '")

IsErrorLine(line) == StartsWith(line, "Tool ID ") /\ ~Contains(line, "' -> '")

\* C2: batch_update_connections in non-preview mode with a resolved value:
\* every listed id that exists has its connection leaf set to the value in
\* the written file, every listed id that does not exist yields exactly one
\* error line, and change lines plus error lines are as many as listed ids.
C2_BatchPartialFailure ==
    (call.op = "batch_update_connections" /\ ~call.dry_run /\ BatchValue # None) =>
        LET ids == call.tool_ids
            old == ParseFile(before)
            new == ParseFile(disk)
        IN  /\ \A i \in 1..Len(ids) :
                   HasNode(old, ids[i]) => ConnectionText(NodeOf(new, ids[i])) = BatchValue
            /\ \A i \in 1..Len(ids) :
                   ~HasNode(old, ids[i]) =>
                       CountLines(ret, LAMBDA l : l = "Tool ID " \o Str(ids[i]) \o " not found")
                       = Count(ids, LAMBDA x : x = ids[i])
            /\ CountLines(ret, IsChangeLine) + CountLines(ret, IsErrorLine) = Len(ids)

\* C3: batch_update_connections with no explicit value and a source node
\* whose connection leaf has text V: every existing target ends with
\* connection leaf text V, and the report has one change line
\* "Tool ID <id>: '<old>' -> 'V'" per target.
C3_ConnectionCopy ==
    (/\ call.op = "batch_update_connections"
     /\ ~call.dry_run
     /\ call.source_connection_id = None
     /\ call.source_tool_id # NoInt
     /\ HasNode(ParseFile(before), call.source_tool_id[1])
     /\ ConnectionText(NodeOf(ParseFile(before), call.source_tool_id[1])) # None) =>
        LET ids == call.tool_ids
            old == ParseFile(before)
            new == ParseFile(disk)
            V == ConnectionText(NodeOf(old, call.source_tool_id[1]))
        IN  \A i \in 1..Len(ids) :
                HasNode(old, ids[i]) =>
                    /\ ConnectionText(NodeOf(new, ids[i])) = V
                    /\ CountLines(ret, LAMBDA l :
                           /\ StartsWith(l, "Tool ID " \o Str(ids[i]) \o ": '")
                           /\ EndsWith(l, "' -> '" \o V \o "'"))
                       = Count(ids, LAMBDA x : x = ids[i])

\* C4: on a document with unique ids, find_tools_fast with only tool_id
\* supplied returns what find_tools returns for the same tool_id.
C4_FastEqualsFull ==
    (/\ call.op = "find_tools_fast"
     /\ call.tool_id # NoInt
     /\ call.plugin_type = None
     /\ call.annotation_pattern = None
     /\ UniqueIds(ParseFile(before))) =>
        ret = find_tools(before, call.tool_id, None, None)

\* C5: _find_node_by_id returns the first node in depth-first pre-order
\* whose id is the requested id, and nothing exactly when no node has it.
C5_FirstInPreOrder ==
    call.op = "_find_node_by_id" =>
        LET hits == NodesWithId(ParseFile(before), call.tool_id)
        IN  ret = IF hits = <<>> THEN NoPath ELSE hits[1]

\* the id is carried twice; the node found is the one nested in container 1
C5_Witness ==
    /\ call.op = "_find_node_by_id"
    /\ call.tool_id = 2
    /\ before = Serialize(DuplicateDoc)
    /\ ret = <<1, 1, 3, 1>>

\* C6: find_tools with a plugin short name S and no other criterion returns
\* exactly the nodes whose plugin's last dotted segment is S.
C6_CountByShortName ==
    (/\ call.op = "find_tools"
     /\ call.tool_id = NoInt
     /\ call.annotation_pattern = None
     /\ call.plugin_type \in PluginShortNames) =>
        LET root == ParseFile(before)
            same == SelectSeq(NodePositions(root),
                        LAMBDA p : LastSegment(PluginOf(At(root, p))) = call.plugin_type)
        IN  /\ ret.count = Len(same)
            /\ \A i \in 1..Len(ret.tools) :
                   LastSegment(ret.tools[i].plugin) = call.plugin_type

\* the Node elements of the document create_workflow wrote
CreatedNodes == At(ParseFile(disk), <<1>>).kids

\* among the first i descriptors, those that omit the id
OmittedUpTo(i) == {j \in 1..i : "tool_id" \notin DOMAIN call.tools_config[j]}

CreatedEdges ==
    LET c == Find(ParseFile(disk), <<"Connections">>)
    IN  IF c = NoPath THEN <<>> ELSE At(ParseFile(disk), c).kids

\* C8: after create_workflow, locating each descriptor's id returns a node
\* whose plugin ends with the short name of that descriptor, and the edge
\* list has one edge per edge descriptor, in order, with ports "Output" and
\* "Input" where the descriptor names none.
C8_CreateThenFind ==
    call.op = "create_workflow" =>
        /\ \A i \in 1..Len(call.tools_config) :
               LET root == ParseFile(disk)
                   found == _find_node_by_id(root, IntOf(Get(CreatedNodes[i], "ToolID")))
               IN  /\ found # NoPath
                   /\ "plugin" \in DOMAIN call.tools_config[i] =>
                          EndsWith(PluginOf(At(root, found)),
                                   LastSegment(call.tools_config[i]["plugin"]))
        /\ Len(CreatedEdges) = Len(call.connections)
        /\ \A j \in 1..Len(call.connections) :
               LET conn == call.connections[j]
                   origin == CreatedEdges[j].kids[1]
                   dest == CreatedEdges[j].kids[2]
               IN  /\ Get(origin, "ToolID") = Str(conn["origin"])
                   /\ Get(dest, "ToolID") = Str(conn["destination"])
                   /\ Get(origin, "Connection") = CfgGet(conn, "origin_connection", "Output")
                   /\ Get(dest, "Connection") = CfgGet(conn, "destination_connection", "Input")

RECURSIVE AsDict(_)
RECURSIVE AsValue(_)
\* a mapping given as ordered items, as the mapping it denotes
AsDict(data) ==
    [key \in {data[i][1] : i \in 1..Len(data)} |->
        AsValue(data[CHOOSE i \in 1..Len(data) : data[i][1] = key][2])]

AsValue(value) ==
    IF value.t = "dict" THEN VDict(AsDict(value.v))
    ELSE IF value.t = "list" THEN VList([i \in 1..Len(value.v) |-> AsValue(value.v[i])])
    ELSE value

\* C9: building the sub-tree of a mapping with _dict_to_elem and reading it
\* back with _elem_to_dict yields the mapping.
C9_RoundTrip ==
    call.op = "_elem_to_dict" => ret = AsDict(call.data)

\* C10: update_annotation in non-preview mode on an id that some node
\* carries writes a document in which that node's annotation leaf exists
\* with the new text; it answers "not found" only when no node has the id.
C10_AnnotationSet ==
    (call.op = "update_annotation" /\ ~call.dry_run) =>
        LET old == ParseFile(before)
            new == ParseFile(disk)
            id == call.tool_id
        IN  /\ HasNode(old, id) =>
                   /\ AnnotationLeaf(NodeOf(new, id)) # NoPath
                   /\ OrEmpty(At(NodeOf(new, id), AnnotationLeaf(NodeOf(new, id))).text)
                      = call.new_annotation
            /\ EndsWith(ret, " not found") => ~HasNode(old, id)

\* the configuration of a node and its format-options sub-section
ConfigOf(node) == Find(node, <<"Properties", "Configuration">>)

FsoOf(node) == Find(node, <<"Properties", "Configuration", "FormatSpecificOptions">>)

\* the query leaf of a node
QueryLeaf(node) ==
    Find(node, <<"Properties", "Configuration", "FormatSpecificOptions", "Query">>)

StructureErrors(id) ==
    {"Tool ID " \o Str(id) \o " has no Configuration",
     "Could not find FormatSpecificOptions in tool " \o Str(id)}

\* C11: update_sql_query in non-preview mode on an id that some node
\* carries: when the node's configuration has a format-options sub-section,
\* the written document holds the node's query leaf with exactly the
\* supplied text; otherwise the call returns a structure error and the
\* document has no more query leaves than before.
C11_SqlQuery ==
    (/\ call.op = "update_sql_query"
     /\ ~call.dry_run
     /\ HasNode(ParseFile(before), call.tool_id)) =>
        LET old == ParseFile(before)
            new == ParseFile(disk)
            id == call.tool_id
        IN  IF FsoOf(NodeOf(old, id)) # NoPath
            THEN /\ QueryLeaf(NodeOf(new, id)) # NoPath
                 /\ At(NodeOf(new, id), QueryLeaf(NodeOf(new, id))).text = call.new_query
            ELSE /\ ret \in StructureErrors(id)
                 /\ Len(IterTag(new, "Query")) = Len(IterTag(old, "Query"))

\* C12: update_connection_id in non-preview mode on an id that some node
\* carries: the node's connection leaf under the format-options sub-section,
\* else its connection leaf directly under the configuration, receives the
\* new value; with neither, a leaf with DcmType="ConnectionId" and the new
\* value is created directly under the node's configuration; with no
\* configuration either, the call fails and writes nothing.
C12_ConnectionId ==
    (/\ call.op = "update_connection_id"
     /\ ~call.dry_run
     /\ HasNode(ParseFile(before), call.tool_id)) =>
        LET node == NodeOf(ParseFile(before), call.tool_id)
            after == NodeOf(ParseFile(disk), call.tool_id)
            direct == Find(after, <<"Properties", "Configuration", "Connection">>)
        IN  IF ConnectionLeaf(node) # NoPath
            THEN At(after, ConnectionLeaf(node)).text = call.new_connection_id
            ELSE IF ConfigOf(node) # NoPath
            THEN /\ direct # NoPath
                 /\ At(after, direct).text = call.new_connection_id
                 /\ Get(At(after, direct), "DcmType") = "ConnectionId"
            ELSE /\ ~StartsWith(ret, "Updated")
                 /\ disk = before

\* the text a leaf of a node holds, empty when the leaf is absent or empty
LeafText(node, leaf) == IF leaf = NoPath THEN "" ELSE OrEmpty(At(node, leaf).text)

\* the value the leaf an update_annotation or update_connection_id call
\* names held before the call
OldValue ==
    LET node == NodeOf(ParseFile(before), call.tool_id)
    IN  IF call.op = "update_annotation" THEN LeafText(node, AnnotationLeaf(node))
        ELSE LeafText(node, ConnectionLeaf(node))

NewValue ==
    IF call.op = "update_annotation" THEN call.new_annotation ELSE call.new_connection_id

Succeeded == StartsWith(ret, "Dry run - would ") \/ StartsWith(ret, "Updated ")

\* C13: the report of every successful update_annotation and
\* update_connection_id call, preview or not, contains the value the leaf
\* held before the call and the new value.
C13_ReportsOldNew ==
    (call.op \in {"update_annotation", "update_connection_id"} /\ Succeeded) =>
        /\ Contains(ret, OldValue)
        /\ Contains(ret, NewValue)

\* the three row-limit parameters of an update_row_limit call, and the
\* leaves that hold them
LimitParams == <<call.first_n, call.last_n, call.sample_n>>

LimitTags == <<"First", "Last", "N">>

\* C14: update_row_limit on an id that some node with a configuration
\* carries: after a non-preview call the leaf of every supplied parameter
\* (0 included) exists under the configuration with that value, and the
\* leaf of every parameter not supplied is as before (absent, or present
\* with the same text); with no parameter supplied the call answers that
\* nothing was specified and does not write.
C14_RowLimit ==
    (/\ call.op = "update_row_limit"
     /\ HasNode(ParseFile(before), call.tool_id)
     /\ ConfigOf(NodeOf(ParseFile(before), call.tool_id)) # NoPath) =>
        LET node == NodeOf(ParseFile(before), call.tool_id)
            after == NodeOf(ParseFile(disk), call.tool_id)
            config == At(node, ConfigOf(node))
            config2 == At(after, ConfigOf(after))
        IN  IF \A k \in 1..3 : LimitParams[k] = NoInt
            THEN ret = "No row limit updates specified" /\ disk = before /\ ~wrote
            ELSE ~call.dry_run =>
                 \A k \in 1..3 :
                     LET l == Find(config, <<LimitTags[k]>>)
                         l2 == Find(config2, <<LimitTags[k]>>)
                     IN  IF LimitParams[k] # NoInt
                         THEN l2 # NoPath /\ At(config2, l2).text = Str(LimitParams[k][1])
                         ELSE /\ (l = NoPath) = (l2 = NoPath)
                              /\ l # NoPath => At(config2, l2).text = At(config, l).text

\* node 1 holds First = 10 and neither Last nor N; the call supplies
\* first_n = 0 and sample_n = 3: First becomes 0, N is created, Last stays
\* absent
C14_Witness ==
    /\ call.op = "update_row_limit"
    /\ ~call.dry_run
    /\ call.tool_id = 1
    /\ call.first_n = <<0>> /\ call.last_n = NoInt /\ call.sample_n = <<3>>
    /\ HasNode(ParseFile(before), 1)
    /\ FindText(NodeOf(ParseFile(before), 1), <<"Properties", "Configuration", "First">>, "") = "10"
    /\ FindText(NodeOf(ParseFile(disk), 1), <<"Properties", "Configuration", "First">>, "") = "0"
    /\ FindText(NodeOf(ParseFile(disk), 1), <<"Properties", "Configuration", "N">>, "") = "3"
    /\ Find(NodeOf(ParseFile(disk), 1), <<"Properties", "Configuration", "Last">>) = NoPath

\* the connection leaves of a node, one per legal location that holds one
ConnectionLeaves(node) ==
    {l \in {Find(node, <<"Properties", "Configuration", "FormatSpecificOptions", "Connection">>),
            Find(node, <<"Properties", "Configuration", "Connection">>)} : l # NoPath}

\* the connection leaves of a node whose text is a key of the mapping
MappedLeaves(node, connections_map) ==
    {l \in ConnectionLeaves(node) : At(node, l).text \in DOMAIN connections_map}

\* C15: rewrite_connections in non-preview mode with a non-empty mapping:
\* every node, at any depth, whose connection leaf in either legal location
\* has a text that is a key of the mapping ends with that leaf holding the
\* mapped new_id, the report has one change line per such node, and when no
\* node matches the call answers that nothing was updated and does not
\* write.
C15_RewriteMapped ==
    (/\ call.op = "rewrite_connections" /\ ~call.dry_run
     /\ call.config.exists /\ DOMAIN call.config.connections # {}) =>
        LET old == ParseFile(before)
            new == ParseFile(disk)
            map == call.config.connections
            matched == SelectSeq(NodePositions(old),
                                 LAMBDA p : MappedLeaves(At(old, p), map) # {})
        IN  IF matched = <<>>
            THEN ret = "No connections were updated" /\ disk = before /\ ~wrote
            ELSE /\ \A i \in 1..Len(matched) :
                        \A l \in MappedLeaves(At(old, matched[i]), map) :
                            At(new, matched[i] \o l).text = map[At(old, matched[i] \o l).text].new_id
                 /\ CountLines(ret, IsChangeLine) = Len(matched)

\* the operations on one target that the error rule is about
SingleTargetOps ==
    {"update_annotation", "update_sql_query", "update_connection_id", "update_row_limit"}

\* the result is one of the reports of a successful or previewed edit; every
\* other result of a single-target operation is an error result
EditReported ==
    \/ StartsWith(ret, "Updated ")
    \/ StartsWith(ret, "Dry run - would ")
    \/ StartsWith(ret, "[DRY RUN] Would update ")

\* C16: whenever update_annotation, update_sql_query, update_connection_id
\* or update_row_limit returns an error result (target not found, no
\* configuration, no format-options anchor, nothing to update), the file on
\* disk is as it was before the call and was not written.
C16_NoPartialEdit ==
    (call.op \in SingleTargetOps /\ ~EditReported) => (disk = before /\ ~wrote)

\* a non-preview update_sql_query on node 5, which has a configuration and
\* no format-options anchor, answered with the anchor error
C16_Witness ==
    /\ call.op = "update_sql_query"
    /\ ~call.dry_run
    /\ call.tool_id = 5
    /\ HasNode(ParseFile(before), 5)
    /\ ConfigOf(NodeOf(ParseFile(before), 5)) # NoPath
    /\ ret = "Could not find FormatSpecificOptions in tool 5"
    /\ disk = before

\* the answers of a batch operation that refuses its arguments before it
\* looks at any target
BatchRefusals ==
    {"Must specify either tool_ids or plugin_type",
     "No connection ID provided and no source tool ID found"}

\* a batch call that got to its targets and ended with no change line and
\* no per-target error line
NothingDone ==
    /\ call.op \in {"batch_update_connections", "batch_update_row_limits"}
    /\ ret \notin BatchRefusals
    /\ ~StartsWith(ret, "Source Tool ID ")
    /\ CountLines(ret, LAMBDA line : StartsWith(line, "Tool ")) = 0

\* C17: a call of batch_update_connections or batch_update_row_limits that
\* ends with no change and no per-target error returns a non-empty report
\* that says nothing was found or updated, and does not write the file.
C17_SaysNothingDone ==
    NothingDone => (ret # "" /\ StartsWith(ret, "No ") /\ disk = before /\ ~wrote)

\* C18: running the same non-preview call of a mutator twice in succession
\* leaves the document on disk that running it once leaves: the second run
\* changes nothing.
C18_Idempotent ==
    call.op = "retry" => disk = before

\* no new_id of the mapping is itself a key of the mapping
Unchained(connections_map) ==
    \A k \in DOMAIN connections_map : connections_map[k].new_id \notin DOMAIN connections_map

\* C18, amended: the second of two identical non-preview calls in succession
\* changes nothing, for every mutator, provided that for rewrite_connections
\* no new_id of the mapping is itself a key of the mapping.
C18_IdempotentUnchained ==
    (/\ call.op = "retry"
     /\ call.of.op = "rewrite_connections" => Unchained(call.of.config.connections)) =>
        disk = before

\* rewrite_connections with the mapping CONN_A -> CONN_X run a second time
\* on a document that holds a CONN_X leaf: nothing is updated
C18_Witness ==
    /\ call.op = "retry"
    /\ call.of.op = "rewrite_connections"
    /\ call.of.config.exists
    /\ DOMAIN call.of.config.connections = {"CONN_A"}
    /\ call.of.config.connections["CONN_A"].new_id = "CONN_X"
    /\ \E i \in 1..Len(IterTag(ParseFile(disk), "Connection")) :
           At(ParseFile(disk), IterTag(ParseFile(disk), "Connection")[i]).text = "CONN_X"
    /\ ret = "No connections were updated"
    /\ disk = before

\* both callers have returned
BothDone == \A i \in Callers : running[i].pc = "done"

\* the callers whose call wrote the file, and the one that wrote last
Writers == {i \in Callers : running[i].wrote_at > 0}

LastWriter == CHOOSE i \in Writers : \A j \in Writers : running[j].wrote_at <= running[i].wrote_at

\* what a call of caller i alone leaves of a file
Alone(i, file) == Run(running[i].c, file).file

\* C19: when two mutator calls on the same file interleave, parse and
\* write each being one step, the file in the end is what the last writer
\* wrote: the document that call parsed plus its own edit.  When the last
\* writer parsed before the other call wrote, the other call's edit is
\* lost (the file is what the last writer alone leaves of the original);
\* when it parsed after, both edits are there.
C19_LastWriteWins ==
    BothDone =>
        IF Writers = {} THEN disk = before
        ELSE LET l == LastWriter
                 o == CHOOSE j \in Callers : j # l
             IN  /\ disk = Alone(l, running[l].parsed)
                 /\ (o \in Writers /\ running[l].parsed_at < running[o].wrote_at) =>
                        disk = Alone(l, before)
                 /\ (o \in Writers /\ running[l].parsed_at > running[o].wrote_at) =>
                        disk = Alone(l, Alone(o, before))

\* a lost update: both calls wrote, the last writer had parsed before the
\* other wrote, and the file is not what the two calls leave one after the
\* other, in either order
C19_Witness ==
    /\ BothDone
    /\ Writers = Callers
    /\ LET l == LastWriter
           o == CHOOSE j \in Callers : j # l
       IN  /\ running[l].parsed_at < running[o].wrote_at
           /\ disk = Alone(l, before)
           /\ disk # Alone(l, Alone(o, before))
           /\ disk # Alone(o, Alone(l, before))

\* the summary lists the node with this id with this connection text: its
\* heading is followed, before the next heading, by the connection line
ListsConnection(report, id, text) ==
    LET ls == Lines(report)
    IN  \E i \in 1..Len(ls) :
            /\ ls[i] = "### Tool " \o id
            /\ \E j \in (i + 1)..Len(ls) :
                   /\ ls[j] = "**Connection**: " \o Tick \o text \o Tick
                   /\ \A k \in (i + 1)..(j - 1) : ~StartsWith(ls[k], "### Tool ")

\* the connection leaves of a node that hold a non-empty text
FilledLeaves(node) == {l \in ConnectionLeaves(node) : At(node, l).text \notin {None, ""}}

IsDbInput(node) == LastSegment(PluginOf(node)) = "DbFileInput"

\* C20: the summary lists every database-input node, at any depth, whose
\* connection leaf holds a non-empty text in either legal location, with
\* its id and that text; and when update_connection_id has just set the
\* connection leaf of a database-input node to a value, the summary shows
\* that value for the node.
C20_SummaryShowsConnection ==
    call.op = "summarize_workflow" =>
        LET root == ParseFile(disk)
            all == NodePositions(root)
        IN  /\ \A i \in 1..Len(all) :
                   (IsDbInput(At(root, all[i])) /\ FilledLeaves(At(root, all[i])) # {}) =>
                       \E l \in FilledLeaves(At(root, all[i])) :
                           ListsConnection(ret, Get(At(root, all[i]), "ToolID"),
                                           At(root, all[i] \o l).text)
            /\ (/\ call.after.op = "update_connection_id"
                /\ ~call.after.dry_run
                /\ HasNode(root, call.after.tool_id)
                /\ IsDbInput(NodeOf(root, call.after.tool_id))
                /\ ConnectionText(NodeOf(root, call.after.tool_id))
                       = call.after.new_connection_id) =>
                   ListsConnection(ret, Str(call.after.tool_id), call.after.new_connection_id)

\* the descriptors of a create_workflow call that supply an id
Supplying == {i \in 1..Len(call.tools_config) : "tool_id" \in DOMAIN call.tools_config[i]}

\* the ids the descriptors supply are pairwise distinct
DistinctSupplied ==
    \A i, j \in Supplying :
        i # j => call.tools_config[i]["tool_id"] # call.tools_config[j]["tool_id"]

\* C21: when the ids that the descriptors of a create_workflow call supply
\* are pairwise distinct, whatever the mix and order of descriptors with
\* and without an id, no two nodes of the created document carry the same
\* id.
C21_BuilderKeepsIdsUnique ==
    (call.op = "create_workflow" /\ DistinctSupplied) => UniqueIds(ParseFile(disk))

\* the ids a connection update names as its targets
ConnectionTargets ==
    IF call.op = "update_connection_id" THEN {Str(call.tool_id)}
    ELSE {Str(call.tool_ids[i]) : i \in 1..Len(call.tool_ids)}

\* the configuration element of a node, None when it has none
ConfigElem(node) == IF ConfigOf(node) = NoPath THEN None ELSE At(node, ConfigOf(node))

\* C22: after update_connection_id on an id, or batch_update_connections
\* on a list of ids, the configuration (connection leaf included) of every
\* node whose id is not among the targets is what it was before the call,
\* nodes nested inside a target container included.
C22_TouchesOnlyTarget ==
    call.op \in {"update_connection_id", "batch_update_connections"} =>
        LET old == ParseFile(before)
            new == ParseFile(disk)
            all == NodePositions(old)
        IN  /\ NodePositions(new) = all
            /\ \A i \in 1..Len(all) :
                   Get(At(old, all[i]), "ToolID") \notin ConnectionTargets =>
                       ConfigElem(At(new, all[i])) = ConfigElem(At(old, all[i]))

====
